---- MODULE Spec2Model ----
(***************************************************************************)
(* A model of the homie scraping pipeline:                                 *)
(*   EnhancedPuppeteerScraperService  (pagination, guard, extraction)      *)
(*   DatabaseService                  (upsert, purge, notification flag)   *)
(*   ScraperDatabaseService           (scrapeAndSaveToDatabase)            *)
(* Strings that the code takes apart (links, titles) are sequences of      *)
(* tokens, so that startsWith / includes / trim / match are computed.      *)
(***************************************************************************)
EXTENDS Integers, Sequences, FiniteSets, TLC

VARIABLES
    now,            \* wall clock, in ticks of the TIMESTAMP resolution
    browser,        \* EnhancedPuppeteerScraperService.browser: "null" | "open"
    openTabs,       \* number of tabs (Page objects) currently open
    pc,             \* control point of the running operation
    currentPage,    \* scrapeProperties: currentPage
    allProperties,  \* scrapeProperties: allProperties
    pageResult,     \* scrapeProperties: pageResult / scrapeSinglePage's return value
    title,          \* scrapeSinglePage: the title of the page in the open tab
    hasNextPage,    \* scrapeProperties: hasNextPage / checkForNextPage's return value
    result,         \* the value returned by scrapeProperties
    scraped,        \* history: page indexes handed to scrapeSinglePage, in order
    probed,         \* history: page indexes handed to checkForNextPage, in order
    pageResults,    \* history: the results scrapeSinglePage returned, in order
    evasions,       \* history: evasion sequences run during the current page scrape
    connection,     \* DatabaseService.connection: "null" | "open"
    db,             \* table rental_apartments: id -> row
    inTx,           \* a transaction is open on the connection
    txSnapshot,     \* the table when the open transaction began
    dpc,            \* control point of the DatabaseService operation
    batch,          \* upsertProperties: properties (the argument)
    valid,          \* upsertProperties: validProperties
    idx,            \* upsertProperties: position of the for loop in valid
    exists,         \* upsertProperties: exists
    counts,         \* upsertProperties: inserted, updated, skipped
    saveStats,      \* the value returned by upsertProperties
    thrown,         \* the error an operation has thrown, "" for none
    dbBefore,       \* history: the table when upsertProperties was called
    written,        \* history: the properties whose upsert statement ran
    ops,            \* history: operations the client has started
    rpc,            \* control point of scrapeAndSaveToDatabase
    options,        \* scrapeAndSaveToDatabase: options
    runResult,      \* the value returned by scrapeAndSaveToDatabase
    arg,            \* the argument of the DatabaseService operation called last
    log,            \* history: the query operations the client has completed
    fnArgs,         \* the arguments of a function applied on its own
    fnValue,        \* the value that application gave
    jobs,           \* the API server's job map: jobId -> ScrapingJob
    jobSeq,         \* history: the jobs POST /scrape has created so far
    served,         \* history: the handler or callback the server ran last
    statusTrail,    \* history: the values assigned to each job's status, in order
    delay,          \* scrapeProperties: the inter-page timer it sleeps on, 0 for none
    paced,          \* history: an inter-page delay has run since the last page fetch
    storage,        \* rental_apartments as concurrent sessions share it: a set of rows
    nextRid,        \* the storage's counter of rows created
    sess            \* per session: the operation its connection runs and its locals

scrapeVars == <<browser, openTabs, pc, currentPage, allProperties, pageResult,
                title, hasNextPage, result, scraped, probed, pageResults, evasions>>

dbVars == <<connection, db, inTx, txSnapshot, dpc, batch, valid, idx, exists,
            counts, saveStats, thrown, dbBefore, written, ops>>

runVars == <<rpc, options, runResult>>

clientVars == <<arg, log>>

fnVars == <<fnArgs, fnValue>>

jobVars == <<jobs, jobSeq, served, statusTrail>>

paceVars == <<delay, paced>>

pairVars == <<storage, nextRid, sess>>

vars == <<now, scrapeVars, dbVars, runVars, clientVars, fnVars, jobVars, paceVars,
          pairVars>>

(***************************************************************************)
(* Bounds of the model.                                                    *)
(***************************************************************************)
MaxTime == 2        \* the clock stops ticking here
MaxOps == 3         \* operations a client of DatabaseService starts
TicksPerDay == 2    \* clock ticks in one day
SitePages == 2      \* result pages with listings that a pipeline run is served
MaxRows == 3        \* rows of the table getStatistics is applied to
MaxJobs == 2        \* jobs POST /scrape is asked to start

(***************************************************************************)
(* Program constants.                                                      *)
(***************************************************************************)
maxPagesBefore == 5 + 5
maxPages == 5
PriceNotFound == "Price not found"
BaseOrigin == "https://www.yad2.co.il"
ItemSegment == "/realestate/item/"

NoResult == [none |-> TRUE]
NoArgs == [none |-> TRUE]
NoValue == [none |-> TRUE]

(***************************************************************************)
(* Token strings.  A link or href is a sequence of tokens; " " is white    *)
(* space, "?" and "/" are the characters the id pattern stops at.          *)
(***************************************************************************)
HttpOrigins == {BaseOrigin, "https://x"}
IdTokens == {"a", "b"}

StartsWithHttp(s) == s # <<>> /\ s[1] \in HttpOrigins

RECURSIVE TrimLeft(_)
TrimLeft(s) == IF s # <<>> /\ s[1] = " " THEN TrimLeft(Tail(s)) ELSE s

RECURSIVE TrimRight(_)
TrimRight(s) ==
    IF s # <<>> /\ s[Len(s)] = " " THEN TrimRight(SubSeq(s, 1, Len(s) - 1)) ELSE s

\* String.prototype.trim
Trim(s) == TrimRight(TrimLeft(s))

\* property.link && property.link.trim() !== ''
HasLink(p) == p.link # <<>> /\ Trim(p.link) # <<>>

\* fullLink.match(/\/realestate\/item\/([^?\/]+)/): the positions of a match
LinkMatches(link) ==
    {i \in 1..(Len(link) - 1) : link[i] = ItemSegment /\ link[i + 1] \in IdTokens}

Min(S) == CHOOSE x \in S : \A y \in S : x <= y

\* ids are records so that ids taken from a link and synthetic ids compare
ItemId(tok) == [name |-> tok, t |-> 0, index |-> 0]
SyntheticId(t, index) == [name |-> "property", t |-> t, index |-> index]

\* const fullLink = href.startsWith('http') ? href : (href ? base + href : '')
FullLink(href) ==
    IF StartsWithHttp(href) THEN href
    ELSE IF href # <<>> THEN <<BaseOrigin>> \o href ELSE <<>>

PropertyId_WithoutTime(fullLink, t, index) ==
    IF LinkMatches(fullLink) # {}
    THEN ItemId(fullLink[Min(LinkMatches(fullLink)) + 1])
    ELSE SyntheticId(0, index)

\* linkMatch ? linkMatch[1] : `property-${Date.now()}-${index}`
PropertyId(fullLink, t, index) ==
    IF LinkMatches(fullLink) # {}
    THEN ItemId(fullLink[Min(LinkMatches(fullLink)) + 1])
    ELSE SyntheticId(t, index)

(***************************************************************************)
(* Extraction (the page.evaluate closure of scrapeSinglePage).  An item    *)
(* element is what the field selectors find in it: href of its first       *)
(* anchor, text of its price element, the rooms and area matches, the text *)
(* of its heading, the floor match, and the length of its text.  A field   *)
(* that found nothing is the empty string.                                 *)
(***************************************************************************)
MinTextLength == 50

Element(href, price, rooms, area, location, floor, textLen) ==
    [href |-> href, price |-> price, rooms |-> rooms, area |-> area,
     location |-> location, floor |-> floor, textLen |-> textLen]

\* item elements: a listing, the same listing at another price, a listing
\* with no price element, a priced card with no anchor, a priced card whose
\* link is no item link, and a decorative node
ListingA == Element(<<ItemSegment, "a">>, "5000", "3 rooms", "", "Haifa", "", 60)
ListingA2 == Element(<<ItemSegment, "a">>, "7000", "3 rooms", "", "Haifa", "", 60)
ListingB == Element(<<ItemSegment, "b">>, "", "", "", "", "", 60)
NoAnchor == Element(<<>>, "4000", "", "", "", "", 20)
OtherLink == Element(<<"/yad1/">>, "6000", "", "", "", "", 20)
Decorative == Element(<<>>, "", "", "", "Haifa", "", 20)

\* what the item selector may end on when a page is rendered
Doms ==
    { <<>>, <<Decorative>>, <<ListingA, ListingB, NoAnchor>>,
      <<Decorative, ListingA2, OtherLink>> }

\* what page number `page` renders: a pipeline run meets a site of at most
\* SitePages pages of listings, a direct call meets any site
PageDoms(standalone, page) ==
    IF standalone \/ page <= SitePages THEN Doms ELSE {<<>>}

Meaningful_FromMinLength(e) ==
    e.textLen >= MinTextLength \/ e.price # "" \/ e.rooms # "" \/ e.area # ""

\* if (textContent.length > 50 || price || rooms || area)
Meaningful(e) ==
    e.textLen > MinTextLength \/ e.price # "" \/ e.rooms # "" \/ e.area # ""

\* x || 'sentinel'
Or(x, sentinel) == IF x # "" THEN x ELSE sentinel

ExtractOne(e, t, index) ==
    [id       |-> PropertyId(FullLink(e.href), t, index),
     price    |-> Or(e.price, PriceNotFound),
     location |-> Or(e.location, "Location not specified"),
     rooms    |-> Or(e.rooms, "Rooms not specified"),
     area     |-> Or(e.area, "Area not specified"),
     floor    |-> Or(e.floor, "Floor not specified"),
     link     |-> FullLink(e.href)]

\* the body of forEach: what one element adds to items
ExtractElement(e, t, index) ==
    IF Meaningful(e) THEN <<ExtractOne(e, t, index)>> ELSE <<>>

\* propertyElements.forEach((element, index) => ...), index counted from 0
RECURSIVE ExtractFrom(_, _, _)
ExtractFrom(dom, t, i) ==
    IF i > Len(dom) THEN <<>>
    ELSE ExtractElement(dom[i], t, i - 1) \o ExtractFrom(dom, t, i + 1)

ExtractItems(dom, t) == ExtractFrom(dom, t, 1)

(***************************************************************************)
(* The selector loops of the closure.  A document is what its selectors    *)
(* find: for each position of `selectors` the first element matching it,   *)
(* and inside that container, for each position of `itemSelectors`, the    *)
(* elements querySelectorAll returns.  Selectors past MaxSelectors match   *)
(* nothing.  A loop returns the items and the selectors it has tried.      *)
(***************************************************************************)
MaxSelectors == 2   \* selectors of each list that match in a document

Container(lists) == [found |-> TRUE, lists |-> lists]

\* document.querySelector(selector) returned null
NoContainer == [found |-> FALSE, lists |-> <<>>]

Loop(items, tried) == [items |-> items, tried |-> tried]

\* for (const itemSelector of itemSelectors) { ... if (items.length > 0) break; }
RECURSIVE ItemSelectorLoop(_, _, _)
ItemSelectorLoop(container, t, j) ==
    IF j > MaxSelectors THEN Loop(<<>>, <<>>)
    ELSE LET items == ExtractItems(container.lists[j], t)
             rest == ItemSelectorLoop(container, t, j + 1)
         IN  IF items # <<>> THEN Loop(items, <<j>>)
             ELSE Loop(rest.items, <<j>> \o rest.tried)

Query(i, container, inner) ==
    [selector |-> i, found |-> container.found, itemSelectors |-> inner.tried]

LeavesLoop_AtFirstContainer(container, items) == container.found

\* if (items.length > 0) { break; } after the item selectors of a container
LeavesLoop(container, items) == items # <<>>

\* for (const selector of selectors) { const container = ...; if (container)
\* { ...; if (items.length > 0) break; } }
RECURSIVE SelectorLoop(_, _, _)
SelectorLoop(doc, t, i) ==
    IF i > MaxSelectors THEN Loop(<<>>, <<>>)
    ELSE LET inner == IF doc[i].found THEN ItemSelectorLoop(doc[i], t, 1)
                      ELSE Loop(<<>>, <<>>)
             rest == SelectorLoop(doc, t, i + 1)
         IN  IF LeavesLoop(doc[i], inner.items)
             THEN Loop(inner.items, <<Query(i, doc[i], inner)>>)
             ELSE Loop(rest.items, <<Query(i, doc[i], inner)>> \o rest.tried)

(***************************************************************************)
(* Guard: title.includes('ShieldSquare') || title.includes('Captcha') ||   *)
(* title.includes('Access Denied').  A title is the set of words in it.    *)
(***************************************************************************)
ChallengeSignatures == {"ShieldSquare", "Captcha", "Access Denied"}

Titles == { {"Yad2"}, {"ShieldSquare", "Captcha"}, {"Access Denied"},
            {"Just a moment"} }

IsChallenge(t) == t \cap ChallengeSignatures # {}

(***************************************************************************)
(* ScrapingResult values.                                                  *)
(***************************************************************************)
BlockedError == "Bot protection is still active"

\* the success literal sets no error field: error = "" stands for undefined
Success(data) ==
    [success |-> TRUE, data |-> data, error |-> "", totalItems |-> Len(data)]

Failure_ZeroTotal(data, error) ==
    [success |-> FALSE, data |-> data, error |-> error, totalItems |-> 0]

Failure(data, error) ==
    [success |-> FALSE, data |-> data, error |-> error, totalItems |-> Len(data)]

(***************************************************************************)
(* Tick: time passes.  Every await of the program is a point where the     *)
(* clock may or may not have reached its next tick; a tick shows only at  *)
(* the next reading of the clock, so ticks are taken right before one.     *)
(***************************************************************************)
\* the control points whose next step reads the clock
ClockRead == {"extract", "write", "purge"}

Tick ==
    /\ now < MaxTime
    /\ pc \in ClockRead \/ dpc \in ClockRead \/ rpc \in ClockRead
    /\ now' = now + 1
    /\ UNCHANGED <<scrapeVars, dbVars, runVars, clientVars, fnVars, jobVars, paceVars,
                   pairVars>>

(***************************************************************************)
(* EnhancedPuppeteerScraperService.scrapeProperties                        *)
(***************************************************************************)
\* let allProperties = []; let currentPage = 1; try { ...
SP_Enter ==
    /\ pc = "idle"
    /\ pc' = "init"
    /\ allProperties' = <<>>
    /\ currentPage' = 1
    /\ UNCHANGED <<browser, openTabs, pageResult, title, hasNextPage, result,
                   scraped, probed, pageResults, evasions>>

\* const result = await scraper.scrapeProperties(testUrl), called on its own
SP_Call ==
    /\ rpc = "none"
    /\ SP_Enter
    /\ UNCHANGED <<now, dbVars, runVars>>
    /\ UNCHANGED clientVars
    /\ UNCHANGED fnVars
    /\ UNCHANGED jobVars
    /\ UNCHANGED paceVars
    /\ UNCHANGED pairVars

SP_Catch_DropsRecords(error) ==
    /\ result' = Failure(<<>>, error)
    /\ pc' = "done"

\* the catch block of scrapeProperties: success=false with the records so far
SP_Catch(error) ==
    /\ result' = Failure(allProperties, error)
    /\ pc' = "done"

SP_Return_FailsAfterPageFailure ==
    /\ result' = IF pageResult # NoResult /\ ~pageResult.success
                 THEN Failure(allProperties, pageResult.error)
                 ELSE Success(allProperties)
    /\ pc' = "done"

\* the return after the while loop (reached by break or by the loop test)
SP_Return ==
    /\ result' = Success(allProperties)
    /\ pc' = "done"

\* await this.initBrowser(): puppeteer.launch resolves or rejects
SP_InitBrowser ==
    /\ pc = "init"
    /\ \/ /\ browser' = "open"
          /\ pc' = "loop"
          /\ UNCHANGED result
       \/ /\ browser = "null"
          /\ SP_Catch("Failed to launch the browser process")
          /\ UNCHANGED browser
    /\ UNCHANGED <<openTabs, currentPage, allProperties, pageResult, title,
                   hasNextPage, scraped, probed, pageResults, evasions>>
    /\ UNCHANGED <<now, dbVars, runVars>>
    /\ UNCHANGED clientVars
    /\ UNCHANGED fnVars
    /\ UNCHANGED jobVars
    /\ UNCHANGED paceVars
    /\ UNCHANGED pairVars

\* while (currentPage <= maxPages) { pageResult = await scrapeSinglePage(...)
SP_Loop ==
    /\ pc = "loop"
    /\ IF currentPage <= maxPages
       THEN /\ scraped' = Append(scraped, currentPage)
            /\ evasions' = 0
            /\ pc' = "newPage"
            /\ UNCHANGED result
       ELSE /\ SP_Return
            /\ UNCHANGED <<scraped, evasions>>
    /\ UNCHANGED <<browser, openTabs, currentPage, allProperties, pageResult,
                   title, hasNextPage, probed, pageResults>>
    /\ UNCHANGED <<now, dbVars, runVars>>
    /\ UNCHANGED clientVars
    /\ UNCHANGED fnVars
    /\ UNCHANGED jobVars
    /\ delay' = 0
    /\ UNCHANGED paced
    /\ UNCHANGED pairVars

\* scrapeSinglePage returns r to scrapeProperties
SSP_Return(r) ==
    /\ pageResult' = r
    /\ pageResults' = Append(pageResults, r)
    /\ pc' = "page"

\* page = await this.browser.newPage(); a rejection is caught with page null
SSP_NewPage ==
    /\ pc = "newPage"
    /\ \/ /\ openTabs' = openTabs + 1
          /\ pc' = "goto"
          /\ UNCHANGED <<pageResult, pageResults>>
       \/ /\ SSP_Return(Failure(<<>>, "newPage failed"))
          /\ UNCHANGED openTabs
    /\ UNCHANGED <<browser, currentPage, allProperties, title, hasNextPage,
                   result, scraped, probed, evasions>>
    /\ UNCHANGED <<now, dbVars, runVars>>
    /\ UNCHANGED clientVars
    /\ UNCHANGED fnVars
    /\ UNCHANGED jobVars
    /\ UNCHANGED paceVars
    /\ UNCHANGED pairVars

\* stealth set-up, randomDelay(5000, 10000), page.goto, simulated behaviour,
\* page.title(); any rejection is caught and the result built in the catch
SSP_Goto ==
    /\ pc = "goto"
    /\ \/ /\ \E t \in Titles : title' = t
          /\ pc' = "title"
          /\ UNCHANGED pageResult
       \/ /\ pageResult' = Failure(<<>>, "Navigation timeout")
          /\ pc' = "close"
          /\ UNCHANGED title
    /\ UNCHANGED <<browser, openTabs, currentPage, allProperties, hasNextPage,
                   result, scraped, probed, pageResults, evasions>>
    /\ UNCHANGED <<now, dbVars, runVars>>
    /\ UNCHANGED clientVars
    /\ UNCHANGED fnVars
    /\ UNCHANGED jobVars
    /\ paced' = FALSE
    /\ UNCHANGED delay
    /\ UNCHANGED pairVars

\* if (title.includes('ShieldSquare') || ...)
SSP_CheckTitle ==
    /\ pc = "title"
    /\ pc' = IF IsChallenge(title) THEN "evade" ELSE "extract"
    /\ UNCHANGED <<browser, openTabs, currentPage, allProperties, pageResult,
                   title, hasNextPage, result, scraped, probed, pageResults,
                   evasions>>
    /\ UNCHANGED <<now, dbVars, runVars>>
    /\ UNCHANGED clientVars
    /\ UNCHANGED fnVars
    /\ UNCHANGED jobVars
    /\ UNCHANGED paceVars
    /\ UNCHANGED pairVars

SSP_Evade_UntilUnblocked ==
    /\ pc = "evade"
    /\ evasions' = evasions + 1
    /\ \/ /\ \E t \in Titles : title' = t
          /\ pc' = IF IsChallenge(title') THEN "evade" ELSE "extract"
          /\ UNCHANGED pageResult
       \/ /\ pageResult' = Failure(<<>>, "evasion failed")
          /\ pc' = "close"
          /\ UNCHANGED title
    /\ UNCHANGED <<browser, openTabs, currentPage, allProperties, hasNextPage,
                   result, scraped, probed, pageResults>>
    /\ UNCHANGED <<now, dbVars, runVars>>
    /\ UNCHANGED clientVars
    /\ UNCHANGED fnVars
    /\ UNCHANGED jobVars
    /\ UNCHANGED paceVars
    /\ UNCHANGED pairVars

\* click, scroll, type, randomDelay(15000, 25000); const newTitle = ...
SSP_Evade ==
    /\ pc = "evade"
    /\ evasions' = evasions + 1
    /\ \/ /\ \E t \in Titles : title' = t
          /\ IF IsChallenge(title')
             THEN /\ pageResult' = Failure(<<>>, BlockedError)
                  /\ pc' = "close"
             ELSE /\ pc' = "extract"
                  /\ UNCHANGED pageResult
       \/ /\ pageResult' = Failure(<<>>, "evasion failed")
          /\ pc' = "close"
          /\ UNCHANGED title
    /\ UNCHANGED <<browser, openTabs, currentPage, allProperties, hasNextPage,
                   result, scraped, probed, pageResults>>
    /\ UNCHANGED <<now, dbVars, runVars>>
    /\ UNCHANGED clientVars
    /\ UNCHANGED fnVars
    /\ UNCHANGED jobVars
    /\ UNCHANGED paceVars
    /\ UNCHANGED pairVars

\* Date.now() as the page reads it.  Every extraction follows a wait of
\* 5000 ms, so within one tick of the clock the readings still grow with the
\* page that is extracted.
DateNow == now * (maxPages + 1) + currentPage

\* const properties = await page.evaluate(...); return {success: true, ...}
SSP_Extract ==
    /\ pc = "extract"
    /\ \/ \E dom \in PageDoms(rpc = "none", currentPage) :
            pageResult' = Success(ExtractItems(dom, DateNow))
       \/ pageResult' = Failure(<<>>, "evaluate failed")
    /\ pc' = "close"
    /\ UNCHANGED <<browser, openTabs, currentPage, allProperties, title,
                   hasNextPage, result, scraped, probed, pageResults, evasions>>
    /\ UNCHANGED <<now, dbVars, runVars>>
    /\ UNCHANGED clientVars
    /\ UNCHANGED fnVars
    /\ UNCHANGED jobVars
    /\ UNCHANGED paceVars
    /\ UNCHANGED pairVars

SSP_Close_OnSuccessOnly ==
    /\ pc = "close"
    /\ openTabs' = IF pageResult.success THEN openTabs - 1 ELSE openTabs
    /\ SSP_Return(pageResult)
    /\ title' = {}
    /\ UNCHANGED <<browser, currentPage, allProperties, hasNextPage, result,
                   scraped, probed, evasions>>
    /\ UNCHANGED <<now, dbVars, runVars>>
    /\ UNCHANGED clientVars
    /\ UNCHANGED fnVars
    /\ UNCHANGED jobVars
    /\ UNCHANGED paceVars
    /\ UNCHANGED pairVars

\* finally { if (page) await page.close() }: a rejection leaves
\* scrapeSinglePage as an exception, caught by scrapeProperties
SSP_Close ==
    /\ pc = "close"
    /\ \/ /\ openTabs' = openTabs - 1
          /\ SSP_Return(pageResult)
          /\ UNCHANGED result
       \/ /\ SP_Catch("page.close failed")
          /\ UNCHANGED <<openTabs, pageResult, pageResults>>
    /\ title' = {}
    /\ UNCHANGED <<browser, currentPage, allProperties, hasNextPage,
                   scraped, probed, evasions>>
    /\ UNCHANGED <<now, dbVars, runVars>>
    /\ UNCHANGED clientVars
    /\ UNCHANGED fnVars
    /\ UNCHANGED jobVars
    /\ UNCHANGED paceVars
    /\ UNCHANGED pairVars

\* Math.random(): a number in [0, 1), here a fraction n / d
Randoms ==
    { [n |-> 0, d |-> 1], [n |-> 1, d |-> 2], [n |-> 3000, d |-> 3001],
      [n |-> 9999, d |-> 10000] }

\* const delay = Math.floor(Math.random() * (max - min + 1)) + min
RandomDelay(min, max, random) == (random.n * (max - min + 1)) \div random.d + min

\* await this.randomDelay(5000, 8000)
InterPageDelay ==
    /\ \E random \in Randoms : delay' = RandomDelay(5000, 8000, random)
    /\ paced' = TRUE

StopsOnFailureOnly(r) == ~r.success

StopsOnEmptyOnly(r) == r.success /\ Len(r.data) = 0

\* if (!pageResult.success) break; if (pageResult.data.length === 0) break;
StopsPagination(r) == ~r.success \/ Len(r.data) = 0

ProbesEveryPage(page) == FALSE

\* if (currentPage === 1) { currentPage++; await randomDelay(...); continue; }
SkipsProbe(page) == page = 1

\* the loop body after scrapeSinglePage has returned
SP_HandlePage ==
    /\ pc = "page"
    /\ IF StopsPagination(pageResult)
       THEN /\ SP_Return
            /\ UNCHANGED <<allProperties, currentPage, probed>>
       ELSE /\ allProperties' = allProperties \o pageResult.data
            /\ UNCHANGED result
            /\ IF SkipsProbe(currentPage)
               THEN /\ currentPage' = currentPage + 1
                    /\ pc' = "loop"
                    /\ UNCHANGED probed
               ELSE /\ probed' = Append(probed, currentPage)
                    /\ pc' = "probeNew"
                    /\ UNCHANGED currentPage
    /\ UNCHANGED <<browser, openTabs, pageResult, title, hasNextPage, scraped,
                   pageResults, evasions>>
    /\ UNCHANGED <<now, dbVars, runVars>>
    /\ UNCHANGED clientVars
    /\ UNCHANGED fnVars
    /\ UNCHANGED jobVars
    /\ IF ~StopsPagination(pageResult) /\ SkipsProbe(currentPage)
       THEN InterPageDelay
       ELSE UNCHANGED paceVars
    /\ UNCHANGED pairVars

(***************************************************************************)
(* checkForNextPage                                                        *)
(***************************************************************************)
NoPageText == <<>>
PageTexts == {NoPageText} \cup ((1..3) \X (1..3))

\* the anchors of the page, each by the page number in its href
PageNumbers == {2, 3, 4, 20}
PageLinkSets == SUBSET PageNumbers

\* a[href*="page=2"]: the href holds the characters page=2
HrefHasPage2(n) == n = 2 \/ n \div 10 = 2

\* the page.evaluate closure of checkForNextPage
NextPageProbe(pageText, pageLinks, currentPageNum, hasResults) ==
    IF pageText # NoPageText THEN pageText[1] < pageText[2]
    ELSE IF \E n \in pageLinks : HrefHasPage2(n) THEN TRUE
    ELSE currentPageNum = 1 /\ hasResults

(***************************************************************************)
(* Page URLs.  A url is the sequence of its query parameters, each a name  *)
(* (a sequence of tokens, <<"sub", "page">> for subpage) with a number as  *)
(* its value; scheme, host and path hold no "page=" and the url parses.    *)
(***************************************************************************)
Param(name, value) == [name |-> name, value |-> value]

PageParam == <<"page">>

\* the url the scraper is called with in a run
SiteUrl == <<Param(<<"city">>, 5000)>>

\* the position of the first parameter called name, 0 if there is none
FirstNamed(url, name) ==
    IF \E i \in 1..Len(url) : url[i].name = name
    THEN CHOOSE i \in 1..Len(url) :
            /\ url[i].name = name
            /\ \A j \in 1..(i - 1) : url[j].name # name
    ELSE 0

\* urlObj.searchParams.set(name, value): the first parameter of that name
\* takes the value and the others of that name go; appended if there is none
SearchParamsSet(url, name, value) ==
    IF FirstNamed(url, name) = 0 THEN Append(url, Param(name, value))
    ELSE SubSeq(url, 1, FirstNamed(url, name) - 1)
         \o <<Param(name, value)>>
         \o SelectSeq(SubSeq(url, FirstNamed(url, name) + 1, Len(url)),
                      LAMBDA q : q.name # name)

\* addPageParameter(url, pageNumber)
AddPageParameter(url, pageNumber) == SearchParamsSet(url, PageParam, pageNumber)

\* the text name=value holds a match of /page=(\d+)/
MatchesPageEquals(q) == q.name[Len(q.name)] = "page"

\* currentUrl.match(/page=(\d+)/): the number of the leftmost match, or 1
PageNumberIn(currentUrl) ==
    IF \E i \in 1..Len(currentUrl) : MatchesPageEquals(currentUrl[i])
    THEN currentUrl[CHOOSE i \in 1..Len(currentUrl) :
                       /\ MatchesPageEquals(currentUrl[i])
                       /\ \A j \in 1..(i - 1) : ~MatchesPageEquals(currentUrl[j])].value
    ELSE 1

\* the catch block: currentUrl.match(/page=(\d+)/) ... return currentPageNum === 1
ProbeFallback(currentUrl) == PageNumberIn(currentUrl) = 1

CNP_NewPage ==
    /\ pc = "probeNew"
    /\ \/ /\ openTabs' = openTabs + 1
          /\ pc' = "probeEval"
          /\ UNCHANGED hasNextPage
       \/ /\ hasNextPage' = ProbeFallback(AddPageParameter(SiteUrl, currentPage))
          /\ pc' = "probed"
          /\ UNCHANGED openTabs
    /\ UNCHANGED <<browser, currentPage, allProperties, pageResult, title,
                   result, scraped, probed, pageResults, evasions>>
    /\ UNCHANGED <<now, dbVars, runVars>>
    /\ UNCHANGED clientVars
    /\ UNCHANGED fnVars
    /\ UNCHANGED jobVars
    /\ UNCHANGED paceVars
    /\ UNCHANGED pairVars

\* page.goto, the wait, and page.evaluate; a rejection goes to the catch
CNP_Evaluate ==
    /\ pc = "probeEval"
    /\ \/ \E pageText \in PageTexts, pageLinks \in PageLinkSets,
               hasResults \in BOOLEAN :
            hasNextPage' =
                NextPageProbe(pageText, pageLinks, currentPage, hasResults)
       \/ hasNextPage' = ProbeFallback(AddPageParameter(SiteUrl, currentPage))
    /\ pc' = "probeClose"
    /\ UNCHANGED <<browser, openTabs, currentPage, allProperties, pageResult,
                   title, result, scraped, probed, pageResults, evasions>>
    /\ UNCHANGED <<now, dbVars, runVars>>
    /\ UNCHANGED clientVars
    /\ UNCHANGED fnVars
    /\ UNCHANGED jobVars
    /\ paced' = FALSE
    /\ UNCHANGED delay
    /\ UNCHANGED pairVars

CNP_Close ==
    /\ pc = "probeClose"
    /\ \/ /\ openTabs' = openTabs - 1
          /\ pc' = "probed"
          /\ UNCHANGED result
       \/ /\ SP_Catch("page.close failed")
          /\ UNCHANGED openTabs
    /\ UNCHANGED <<browser, currentPage, allProperties, pageResult, title,
                   hasNextPage, scraped, probed, pageResults, evasions>>
    /\ UNCHANGED <<now, dbVars, runVars>>
    /\ UNCHANGED clientVars
    /\ UNCHANGED fnVars
    /\ UNCHANGED jobVars
    /\ UNCHANGED paceVars
    /\ UNCHANGED pairVars

\* if (!hasNextPage) break; currentPage++; await this.randomDelay(5000, 8000)
SP_AfterProbe ==
    /\ pc = "probed"
    /\ IF ~hasNextPage
       THEN /\ SP_Return
            /\ UNCHANGED currentPage
       ELSE /\ currentPage' = currentPage + 1
            /\ pc' = "loop"
            /\ UNCHANGED result
    /\ UNCHANGED <<browser, openTabs, allProperties, pageResult, title,
                   hasNextPage, scraped, probed, pageResults, evasions>>
    /\ UNCHANGED <<now, dbVars, runVars>>
    /\ UNCHANGED clientVars
    /\ UNCHANGED fnVars
    /\ UNCHANGED jobVars
    /\ IF hasNextPage THEN InterPageDelay ELSE UNCHANGED paceVars
    /\ UNCHANGED pairVars

\* closeBrowser(), as the callers of scrapeProperties do once it has returned
CloseBrowser ==
    /\ rpc = "none"
    /\ pc = "done"
    /\ browser' = "null"
    /\ pc' = "closed"
    /\ UNCHANGED <<openTabs, currentPage, allProperties, pageResult, title,
                   hasNextPage, result, scraped, probed, pageResults, evasions>>
    /\ UNCHANGED <<now, dbVars, runVars>>
    /\ UNCHANGED clientVars
    /\ UNCHANGED fnVars
    /\ UNCHANGED jobVars
    /\ UNCHANGED paceVars
    /\ UNCHANGED pairVars

\* the in-order concatenation of the records of the first n page results
RECURSIVE ConcatPages(_, _)
ConcatPages(rs, n) ==
    IF n <= 0 THEN <<>> ELSE ConcatPages(rs, n - 1) \o rs[n].data

RECURSIVE SumPages(_, _)
SumPages(rs, n) ==
    IF n <= 0 THEN 0 ELSE SumPages(rs, n - 1) + Len(rs[n].data)

(***************************************************************************)
(* DatabaseService                                                         *)
(***************************************************************************)
NoRows == <<>>
NoStats == [none |-> TRUE]
ZeroCounts == [inserted |-> 0, updated |-> 0, skipped |-> 0]

\* the row INSERT ... VALUES (?, ..., FALSE) creates; scraped_at and
\* updated_at take DEFAULT CURRENT_TIMESTAMP
InsertedRow(p, t) ==
    [price |-> p.price, rooms |-> p.rooms, link |-> p.link,
     isWhatsappMessageSent |-> FALSE, scraped_at |-> t, updated_at |-> t]

UpdatedRow_ResetsRow(row, p, t) == InsertedRow(p, t)

UpdatedRow_ResetsFlag(row, p, t) ==
    [row EXCEPT !.price = p.price, !.rooms = p.rooms, !.link = p.link,
                !.updated_at = t, !.isWhatsappMessageSent = FALSE]

\* ON DUPLICATE KEY UPDATE price = VALUES(price), ..., updated_at = CURRENT_TIMESTAMP
UpdatedRow(row, p, t) ==
    [row EXCEPT !.price = p.price, !.rooms = p.rooms, !.link = p.link,
                !.updated_at = t]

Put(table, id, row) ==
    [k \in DOMAIN table \cup {id} |-> IF k = id THEN row ELSE table[k]]

\* the statement of upsertProperty
UpsertRow(table, p, t) ==
    IF p.id \in DOMAIN table
    THEN Put(table, p.id, UpdatedRow(table[p.id], p, t))
    ELSE Put(table, p.id, InsertedRow(p, t))

Purged_ByLastUpdate(table, days, t) ==
    [k \in {i \in DOMAIN table : ~(table[i].updated_at < t - days * TicksPerDay)}
        |-> table[k]]

\* DELETE ... WHERE scraped_at < DATE_SUB(NOW(), INTERVAL ? DAY)
Purged(table, days, t) ==
    [k \in {i \in DOMAIN table : ~(table[i].scraped_at < t - days * TicksPerDay)}
        |-> table[k]]

\* WHERE isWhatsappMessageSent = FALSE: the ids of the rows that match
Unsent(table) == {k \in DOMAIN table : ~table[k].isWhatsappMessageSent}

\* SELECT id, ..., updated_at: a row as the query returns it
Selected(table, k) ==
    [id |-> k, price |-> table[k].price, rooms |-> table[k].rooms,
     link |-> table[k].link,
     isWhatsappMessageSent |-> table[k].isWhatsappMessageSent,
     scraped_at |-> table[k].scraped_at, updated_at |-> table[k].updated_at]

\* ... WHERE isWhatsappMessageSent = FALSE ORDER BY scraped_at DESC: the
\* orders the rows may come in (rows of equal scraped_at in any order)
UnsentListings(table) ==
    {q \in [1..Cardinality(Unsent(table)) -> {Selected(table, k) : k \in Unsent(table)}] :
        /\ \A i, j \in DOMAIN q : i # j => q[i].id # q[j].id
        /\ \A i, j \in DOMAIN q : i < j => q[i].scraped_at >= q[j].scraped_at}

MarkedSent_AllRows(table, t) ==
    [k \in DOMAIN table |->
        [table[k] EXCEPT !.isWhatsappMessageSent = TRUE, !.updated_at = t]]

\* UPDATE ... SET isWhatsappMessageSent = TRUE, updated_at = CURRENT_TIMESTAMP
\* WHERE isWhatsappMessageSent = FALSE
MarkedSent(table, t) ==
    [k \in DOMAIN table |->
        IF table[k].isWhatsappMessageSent THEN table[k]
        ELSE [table[k] EXCEPT !.isWhatsappMessageSent = TRUE, !.updated_at = t]]

UP_Enter_WithoutFilter(properties) ==
    /\ batch' = properties
    /\ valid' = properties
    /\ counts' = ZeroCounts
    /\ idx' = 1
    /\ exists' = FALSE
    /\ saveStats' = NoStats
    /\ thrown' = ""
    /\ dbBefore' = db
    /\ written' = <<>>
    /\ dpc' = "begin"

\* upsertProperties up to its try block: the filter that counts the skipped
UP_Enter(properties) ==
    /\ batch' = properties
    /\ valid' = SelectSeq(properties, HasLink)
    /\ counts' = [ZeroCounts EXCEPT
                     !.skipped = Len(properties) - Len(SelectSeq(properties, HasLink))]
    /\ idx' = 1
    /\ exists' = FALSE
    /\ saveStats' = NoStats
    /\ thrown' = ""
    /\ dbBefore' = db
    /\ written' = <<>>
    /\ dpc' = "begin"

\* a rejected await inside the try block: control goes to the catch block
UP_Fails(error) ==
    /\ thrown' = error
    /\ dpc' = "rollback"

\* await this.connection.beginTransaction()
UP_Begin ==
    /\ dpc = "begin"
    /\ \/ /\ inTx' = TRUE
          /\ txSnapshot' = db
          /\ dpc' = IF valid = <<>> THEN "commit" ELSE "check"
          /\ UNCHANGED thrown
       \/ /\ UP_Fails("beginTransaction failed")
          /\ UNCHANGED <<inTx, txSnapshot>>
    /\ UNCHANGED <<connection, db, batch, valid, idx, exists, counts, saveStats,
                   dbBefore, written, ops>>
    /\ UNCHANGED <<now, scrapeVars, runVars>>
    /\ UNCHANGED clientVars
    /\ UNCHANGED fnVars
    /\ UNCHANGED jobVars
    /\ UNCHANGED paceVars
    /\ UNCHANGED pairVars

UP_Check_BeforeBatch ==
    /\ dpc = "check"
    /\ \/ /\ exists' = (valid[idx].id \in DOMAIN dbBefore)
          /\ dpc' = "write"
          /\ UNCHANGED thrown
       \/ /\ UP_Fails("query failed")
          /\ UNCHANGED exists
    /\ UNCHANGED <<connection, db, inTx, txSnapshot, batch, valid, idx, counts,
                   saveStats, dbBefore, written, ops>>
    /\ UNCHANGED <<now, scrapeVars, runVars>>
    /\ UNCHANGED clientVars
    /\ UNCHANGED fnVars
    /\ UNCHANGED jobVars
    /\ UNCHANGED paceVars
    /\ UNCHANGED pairVars

\* SELECT id FROM rental_apartments WHERE id = ?
UP_Check ==
    /\ dpc = "check"
    /\ \/ /\ exists' = (valid[idx].id \in DOMAIN db)
          /\ dpc' = "write"
          /\ UNCHANGED thrown
       \/ /\ UP_Fails("query failed")
          /\ UNCHANGED exists
    /\ UNCHANGED <<connection, db, inTx, txSnapshot, batch, valid, idx, counts,
                   saveStats, dbBefore, written, ops>>
    /\ UNCHANGED <<now, scrapeVars, runVars>>
    /\ UNCHANGED clientVars
    /\ UNCHANGED fnVars
    /\ UNCHANGED jobVars
    /\ UNCHANGED paceVars
    /\ UNCHANGED pairVars

\* await this.upsertProperty(property); if (exists) updated++ else inserted++
UP_Write ==
    /\ dpc = "write"
    /\ \/ /\ db' = IF HasLink(valid[idx]) THEN UpsertRow(db, valid[idx], now) ELSE db
          /\ written' = IF HasLink(valid[idx]) THEN Append(written, valid[idx])
                        ELSE written
          /\ counts' = IF exists
                       THEN [counts EXCEPT !.updated = counts.updated + 1]
                       ELSE [counts EXCEPT !.inserted = counts.inserted + 1]
          /\ idx' = idx + 1
          /\ dpc' = IF idx < Len(valid) THEN "check" ELSE "commit"
          /\ UNCHANGED thrown
       \/ /\ UP_Fails("write failed")
          /\ UNCHANGED <<db, written, counts, idx>>
    /\ UNCHANGED <<connection, inTx, txSnapshot, batch, valid, exists, saveStats,
                   dbBefore, ops>>
    /\ UNCHANGED <<now, scrapeVars, runVars>>
    /\ UNCHANGED clientVars
    /\ UNCHANGED fnVars
    /\ UNCHANGED jobVars
    /\ UNCHANGED paceVars
    /\ UNCHANGED pairVars

\* await this.connection.commit(); return { inserted, updated, skipped }
UP_Commit ==
    /\ dpc = "commit"
    /\ \/ /\ inTx' = FALSE
          /\ saveStats' = counts
          /\ dpc' = "returned"
          /\ UNCHANGED thrown
       \/ /\ UP_Fails("commit failed")
          /\ UNCHANGED <<inTx, saveStats>>
    /\ UNCHANGED <<connection, db, txSnapshot, batch, valid, idx, exists, counts,
                   dbBefore, written, ops>>
    /\ UNCHANGED <<now, scrapeVars, runVars>>
    /\ UNCHANGED clientVars
    /\ UNCHANGED fnVars
    /\ UNCHANGED jobVars
    /\ UNCHANGED paceVars
    /\ UNCHANGED pairVars

UP_Rollback_KeepsWrites ==
    /\ dpc = "rollback"
    /\ inTx' = FALSE
    /\ dpc' = "threw"
    /\ UNCHANGED <<connection, db, txSnapshot, batch, valid, idx, exists, counts,
                   saveStats, thrown, dbBefore, written, ops>>
    /\ UNCHANGED <<now, scrapeVars, runVars>>
    /\ UNCHANGED clientVars
    /\ UNCHANGED fnVars
    /\ UNCHANGED jobVars
    /\ UNCHANGED paceVars
    /\ UNCHANGED pairVars

\* catch (error) { await this.connection.rollback(); throw error }
UP_Rollback ==
    /\ dpc = "rollback"
    /\ db' = IF inTx THEN txSnapshot ELSE db
    /\ inTx' = FALSE
    /\ dpc' = "threw"
    /\ UNCHANGED <<connection, txSnapshot, batch, valid, idx, exists, counts,
                   saveStats, thrown, dbBefore, written, ops>>
    /\ UNCHANGED <<now, scrapeVars, runVars>>
    /\ UNCHANGED clientVars
    /\ UNCHANGED fnVars
    /\ UNCHANGED jobVars
    /\ UNCHANGED paceVars
    /\ UNCHANGED pairVars

(***************************************************************************)
(* A client of DatabaseService: it connects, calls operations one after    *)
(* the other on the open connection, and disconnects.                      *)
(***************************************************************************)
Item(tok, link, price) ==
    [id |-> ItemId(tok), price |-> price, rooms |-> "Rooms not specified",
     area |-> "Area not specified", link |-> link]

ExampleA == Item("a", <<"https://x", "/1">>, "5000")
ExampleB == Item("b", <<>>, "4000")
ExampleC == Item("c", <<"https://x", "/3">>, PriceNotFound)
ExampleA2 == Item("a", <<"https://x", "/1">>, "7000")
BlankLink == Item("d", <<" ">>, "3000")

ExampleBatch == <<ExampleA, ExampleB, ExampleC>>

Batches == {ExampleBatch, <<ExampleA2>>, <<BlankLink, ExampleA2, ExampleA>>}

DaysChoices == {0, 1}

\* await dbService.connect()
C_Connect ==
    /\ dpc = "off"
    /\ \/ /\ connection' = "open"
          /\ dpc' = "ready"
          /\ UNCHANGED thrown
       \/ /\ thrown' = "connect failed"
          /\ UNCHANGED <<connection, dpc>>
    /\ UNCHANGED <<db, inTx, txSnapshot, batch, valid, idx, exists, counts,
                   saveStats, dbBefore, written, ops>>
    /\ UNCHANGED <<now, scrapeVars, runVars>>
    /\ UNCHANGED clientVars
    /\ UNCHANGED fnVars
    /\ UNCHANGED jobVars
    /\ UNCHANGED paceVars
    /\ UNCHANGED pairVars

\* await dbService.upsertProperties(properties)
C_Upsert ==
    /\ dpc = "ready"
    /\ ops < MaxOps
    /\ ops' = ops + 1
    /\ \E properties \in Batches : UP_Enter(properties)
    /\ UNCHANGED <<connection, db, inTx, txSnapshot>>
    /\ UNCHANGED <<now, scrapeVars, runVars>>
    /\ UNCHANGED clientVars
    /\ UNCHANGED fnVars
    /\ UNCHANGED jobVars
    /\ UNCHANGED paceVars
    /\ UNCHANGED pairVars

\* the client takes the value returned, or catches the error thrown
C_Resume ==
    /\ dpc \in {"returned", "threw"}
    /\ dpc' = "ready"
    /\ UNCHANGED <<connection, db, inTx, txSnapshot, batch, valid, idx, exists,
                   counts, saveStats, thrown, dbBefore, written, ops>>
    /\ UNCHANGED <<now, scrapeVars, runVars>>
    /\ UNCHANGED clientVars
    /\ UNCHANGED fnVars
    /\ UNCHANGED jobVars
    /\ UNCHANGED paceVars
    /\ UNCHANGED pairVars

\* a completed query operation and the value it returned
Returns(op, ret) == Append(log, [op |-> op, ok |-> TRUE, ret |-> ret])

\* a completed query operation that threw
Throws(op) == Append(log, [op |-> op, ok |-> FALSE, ret |-> "error"])

\* await dbService.deleteOldProperties(days)
C_Purge ==
    /\ dpc = "ready"
    /\ ops < MaxOps
    /\ ops' = ops + 1
    /\ \E days \in DaysChoices : arg' = days
    /\ dpc' = "purge"
    /\ UNCHANGED <<connection, db, inTx, txSnapshot, batch, valid, idx, exists,
                   counts, saveStats, thrown, dbBefore, written>>
    /\ UNCHANGED <<now, scrapeVars, runVars, log>>
    /\ UNCHANGED fnVars
    /\ UNCHANGED jobVars
    /\ UNCHANGED paceVars
    /\ UNCHANGED pairVars

\* the DELETE statement; const deletedCount = result.affectedRows || 0
C_PurgeRun ==
    /\ dpc = "purge"
    /\ \/ /\ db' = Purged(db, arg, now)
          /\ log' = Returns("deleteOldProperties",
                           Cardinality(DOMAIN db) - Cardinality(DOMAIN db'))
          /\ thrown' = ""
       \/ /\ thrown' = "query failed"
          /\ log' = Throws("deleteOldProperties")
          /\ UNCHANGED db
    /\ dpc' = "ready"
    /\ UNCHANGED <<connection, inTx, txSnapshot, batch, valid, idx, exists,
                   counts, saveStats, dbBefore, written, ops>>
    /\ UNCHANGED <<now, scrapeVars, runVars, arg>>
    /\ UNCHANGED fnVars
    /\ UNCHANGED jobVars
    /\ UNCHANGED paceVars
    /\ UNCHANGED pairVars

\* await dbService.markAllPropertiesAsWhatsAppSent()
C_MarkSent ==
    /\ dpc = "ready"
    /\ ops < MaxOps
    /\ ops' = ops + 1
    /\ \/ /\ db' = MarkedSent(db, now)
          /\ log' = Returns("markAllPropertiesAsWhatsAppSent",
                            Cardinality(Unsent(db)))
          /\ thrown' = ""
       \/ /\ thrown' = "query failed"
          /\ log' = Throws("markAllPropertiesAsWhatsAppSent")
          /\ UNCHANGED db
    /\ UNCHANGED <<connection, inTx, txSnapshot, dpc, batch, valid, idx, exists,
                   counts, saveStats, dbBefore, written>>
    /\ UNCHANGED <<now, scrapeVars, runVars, arg>>
    /\ UNCHANGED fnVars
    /\ UNCHANGED jobVars
    /\ UNCHANGED paceVars
    /\ UNCHANGED pairVars

\* await dbService.getPropertiesWithoutWhatsAppMessage()
C_FetchUnsent ==
    /\ dpc = "ready"
    /\ ops < MaxOps
    /\ ops' = ops + 1
    /\ \/ /\ \E rows \in UnsentListings(db) :
                log' = Returns("getPropertiesWithoutWhatsAppMessage", rows)
          /\ thrown' = ""
       \/ /\ thrown' = "query failed"
          /\ log' = Throws("getPropertiesWithoutWhatsAppMessage")
    /\ UNCHANGED <<connection, db, inTx, txSnapshot, dpc, batch, valid, idx,
                   exists, counts, saveStats, dbBefore, written>>
    /\ UNCHANGED <<now, scrapeVars, runVars, arg>>
    /\ UNCHANGED fnVars
    /\ UNCHANGED jobVars
    /\ UNCHANGED paceVars
    /\ UNCHANGED pairVars

\* await dbService.disconnect()
C_Disconnect ==
    /\ dpc = "ready"
    /\ connection' = "null"
    /\ dpc' = "off"
    /\ UNCHANGED <<db, inTx, txSnapshot, batch, valid, idx, exists, counts,
                   saveStats, thrown, dbBefore, written, ops>>
    /\ UNCHANGED <<now, scrapeVars, runVars>>
    /\ UNCHANGED clientVars
    /\ UNCHANGED fnVars
    /\ UNCHANGED jobVars
    /\ UNCHANGED paceVars
    /\ UNCHANGED pairVars

(***************************************************************************)
(* ScraperDatabaseService.scrapeAndSaveToDatabase                          *)
(***************************************************************************)
NoOptions == [none |-> TRUE]

\* an optional field is <<>> when the caller supplies none, <<v>> otherwise
Undefined == <<>>

Options ==
    { [exportCsv |-> FALSE, cleanOldData |-> FALSE, cleanOldDays |-> Undefined],
      [exportCsv |-> TRUE, cleanOldData |-> TRUE, cleanOldDays |-> Undefined],
      [exportCsv |-> FALSE, cleanOldData |-> TRUE, cleanOldDays |-> <<1>>] }

DefaultCleanDays == 30

\* x || y on an optional number: y when x is undefined or 0
OrElse(x, y) == IF x # Undefined /\ x[1] # 0 THEN x[1] ELSE y

\* options.cleanOldDays || 30
CleanDays(o) == OrElse(o.cleanOldDays, DefaultCleanDays)

EligibleByLinkOnly(p) == HasLink(p)

\* property.link && property.link.trim() !== '' && property.price !== 'Price not found'
Eligible(p) == HasLink(p) /\ p.price # PriceNotFound

\* a rejected await inside the try block: catch, rethrow, then the finally block
R_Throws(error) ==
    /\ thrown' = error
    /\ rpc' = "finally"

R_Call ==
    /\ rpc = "idle"
    /\ \E o \in Options : options' = o
    /\ rpc' = "connect"
    /\ UNCHANGED <<now, scrapeVars, dbVars, runResult>>
    /\ UNCHANGED clientVars
    /\ UNCHANGED fnVars
    /\ UNCHANGED jobVars
    /\ UNCHANGED paceVars
    /\ UNCHANGED pairVars

\* await this.database.connect()
R_Connect ==
    /\ rpc = "connect"
    /\ \/ /\ connection' = "open"
          /\ rpc' = "createTable"
          /\ UNCHANGED thrown
       \/ /\ R_Throws("connect failed")
          /\ UNCHANGED connection
    /\ UNCHANGED <<db, inTx, txSnapshot, dpc, batch, valid, idx, exists, counts,
                   saveStats, dbBefore, written, ops>>
    /\ UNCHANGED <<now, scrapeVars, options, runResult>>
    /\ UNCHANGED clientVars
    /\ UNCHANGED fnVars
    /\ UNCHANGED jobVars
    /\ UNCHANGED paceVars
    /\ UNCHANGED pairVars

\* await this.database.createTable(); if (options.cleanOldData) ...
R_CreateTable ==
    /\ rpc = "createTable"
    /\ \/ /\ rpc' = IF options.cleanOldData THEN "purge" ELSE "count"
          /\ UNCHANGED thrown
       \/ R_Throws("query failed")
    /\ UNCHANGED <<connection, db, inTx, txSnapshot, dpc, batch, valid, idx,
                   exists, counts, saveStats, dbBefore, written, ops>>
    /\ UNCHANGED <<now, scrapeVars, options, runResult>>
    /\ UNCHANGED clientVars
    /\ UNCHANGED fnVars
    /\ UNCHANGED jobVars
    /\ UNCHANGED paceVars
    /\ UNCHANGED pairVars

\* await this.database.deleteOldProperties(options.cleanOldDays || 30)
R_Purge ==
    /\ rpc = "purge"
    /\ \/ /\ db' = Purged(db, CleanDays(options), now)
          /\ rpc' = "count"
          /\ UNCHANGED thrown
       \/ /\ R_Throws("query failed")
          /\ UNCHANGED db
    /\ UNCHANGED <<connection, inTx, txSnapshot, dpc, batch, valid, idx, exists,
                   counts, saveStats, dbBefore, written, ops>>
    /\ UNCHANGED <<now, scrapeVars, options, runResult>>
    /\ UNCHANGED clientVars
    /\ UNCHANGED fnVars
    /\ UNCHANGED jobVars
    /\ UNCHANGED paceVars
    /\ UNCHANGED pairVars

\* const initialCount = await this.database.getPropertiesCount();
\* const scrapingResult = await this.scraper.scrapeProperties(url)
R_Scrape ==
    /\ rpc = "count"
    /\ \/ /\ SP_Enter
          /\ rpc' = "scraping"
          /\ UNCHANGED thrown
       \/ /\ R_Throws("query failed")
          /\ UNCHANGED scrapeVars
    /\ UNCHANGED <<connection, db, inTx, txSnapshot, dpc, batch, valid, idx,
                   exists, counts, saveStats, dbBefore, written, ops>>
    /\ UNCHANGED <<now, options, runResult>>
    /\ UNCHANGED clientVars
    /\ UNCHANGED fnVars
    /\ UNCHANGED jobVars
    /\ UNCHANGED paceVars
    /\ UNCHANGED pairVars

R_Save_IgnoresSuccess ==
    /\ rpc = "scraping"
    /\ pc = "done"
    /\ UP_Enter(SelectSeq(result.data, Eligible))
    /\ rpc' = "saving"
    /\ UNCHANGED runResult
    /\ UNCHANGED <<connection, db, inTx, txSnapshot, ops>>
    /\ UNCHANGED <<now, scrapeVars, options>>
    /\ UNCHANGED clientVars
    /\ UNCHANGED fnVars
    /\ UNCHANGED jobVars
    /\ UNCHANGED paceVars
    /\ UNCHANGED pairVars

\* if (!scrapingResult.success) return scrapingResult;
\* upsertProperties(scrapingResult.data.filter(...))
R_Save ==
    /\ rpc = "scraping"
    /\ pc = "done"
    /\ IF ~result.success
       THEN /\ runResult' = [scraping |-> result, dbStats |-> NoStats]
            /\ rpc' = "finally"
            /\ UNCHANGED <<dpc, batch, valid, idx, exists, counts, saveStats,
                           thrown, dbBefore, written>>
       ELSE /\ UP_Enter(SelectSeq(result.data, Eligible))
            /\ rpc' = "saving"
            /\ UNCHANGED runResult
    /\ UNCHANGED <<connection, db, inTx, txSnapshot, ops>>
    /\ UNCHANGED <<now, scrapeVars, options>>
    /\ UNCHANGED clientVars
    /\ UNCHANGED fnVars
    /\ UNCHANGED jobVars
    /\ UNCHANGED paceVars
    /\ UNCHANGED pairVars

\* upsertProperties has returned or thrown;
\* if (options.exportCsv) await this.csvExport.exportToCSVEnhanced(...)
R_Export ==
    /\ rpc = "saving"
    /\ dpc \in {"returned", "threw"}
    /\ IF dpc = "threw"
       THEN rpc' = "finally"
       ELSE \/ rpc' = "stats"
            \/ options.exportCsv /\ rpc' = "exportFailed"
    /\ dpc' = "off"
    /\ UNCHANGED <<connection, db, inTx, txSnapshot, batch, valid, idx, exists,
                   counts, saveStats, thrown, dbBefore, written, ops>>
    /\ UNCHANGED <<now, scrapeVars, options, runResult>>
    /\ UNCHANGED clientVars
    /\ UNCHANGED fnVars
    /\ UNCHANGED jobVars
    /\ UNCHANGED paceVars
    /\ UNCHANGED pairVars

\* exportToCSVEnhanced has rejected
R_ExportFailed ==
    /\ rpc = "exportFailed"
    /\ R_Throws("export failed")
    /\ UNCHANGED <<connection, db, inTx, txSnapshot, dpc, batch, valid, idx,
                   exists, counts, saveStats, dbBefore, written, ops>>
    /\ UNCHANGED <<now, scrapeVars, options, runResult>>
    /\ UNCHANGED clientVars
    /\ UNCHANGED fnVars
    /\ UNCHANGED jobVars
    /\ UNCHANGED paceVars
    /\ UNCHANGED pairVars

\* const finalStats = await this.database.getStatistics(); return {...}
R_Stats ==
    /\ rpc = "stats"
    /\ \/ /\ runResult' =
                [scraping |-> result,
                 dbStats |-> [inserted |-> saveStats.inserted,
                              updated |-> saveStats.updated,
                              skipped |-> saveStats.skipped,
                              totalInDb |-> Cardinality(DOMAIN db)]]
          /\ rpc' = "finally"
          /\ UNCHANGED thrown
       \/ /\ R_Throws("query failed")
          /\ UNCHANGED runResult
    /\ UNCHANGED <<connection, db, inTx, txSnapshot, dpc, batch, valid, idx,
                   exists, counts, saveStats, dbBefore, written, ops>>
    /\ UNCHANGED <<now, scrapeVars, options>>
    /\ UNCHANGED clientVars
    /\ UNCHANGED fnVars
    /\ UNCHANGED jobVars
    /\ UNCHANGED paceVars
    /\ UNCHANGED pairVars

\* finally { await this.database.disconnect(); ...
R_Disconnect ==
    /\ rpc = "finally"
    /\ IF connection = "null"
       THEN /\ rpc' = "closeBrowser"
            /\ UNCHANGED <<connection, thrown>>
       ELSE \/ /\ connection' = "null"
               /\ rpc' = "closeBrowser"
               /\ UNCHANGED thrown
            \/ /\ thrown' = "disconnect failed"
               /\ rpc' = "ended"
               /\ UNCHANGED connection
    /\ UNCHANGED <<db, inTx, txSnapshot, dpc, batch, valid, idx, exists, counts,
                   saveStats, dbBefore, written, ops>>
    /\ UNCHANGED <<now, scrapeVars, options, runResult>>
    /\ UNCHANGED clientVars
    /\ UNCHANGED fnVars
    /\ UNCHANGED jobVars
    /\ UNCHANGED paceVars
    /\ UNCHANGED pairVars

\* ... await this.scraper.closeBrowser() }
R_CloseBrowser ==
    /\ rpc = "closeBrowser"
    /\ IF browser = "null"
       THEN UNCHANGED <<browser, thrown>>
       ELSE \/ /\ browser' = "null"
               /\ UNCHANGED thrown
            \/ /\ thrown' = "browser.close failed"
               /\ UNCHANGED browser
    /\ rpc' = "ended"
    /\ UNCHANGED <<openTabs, pc, currentPage, allProperties, pageResult, title,
                   hasNextPage, result, scraped, probed, pageResults, evasions>>
    /\ UNCHANGED <<connection, db, inTx, txSnapshot, dpc, batch, valid, idx,
                   exists, counts, saveStats, dbBefore, written, ops>>
    /\ UNCHANGED <<now, options, runResult>>
    /\ UNCHANGED clientVars
    /\ UNCHANGED fnVars
    /\ UNCHANGED jobVars
    /\ UNCHANGED paceVars
    /\ UNCHANGED pairVars

(***************************************************************************)
(* The API server: the job map, POST /scrape and runScrapingJob.  A job id *)
(* is the number of the POST /scrape request that created the job.         *)
(***************************************************************************)
JobCleanDays == 30

\* const { url, options } = req.body: no options, or options as a direct
\* caller gives them, or a purge of everything first seen before now
RequestOptions ==
    Options \cup {NoOptions}
    \cup {[exportCsv |-> FALSE, cleanOldData |-> TRUE, cleanOldDays |-> <<0>>]}

\* { exportCsv: true, cleanOldData: true, cleanOldDays: 30, ...options }
ScrapingOptions(o) ==
    IF o = NoOptions
    THEN [exportCsv |-> TRUE, cleanOldData |-> TRUE, cleanOldDays |-> <<JobCleanDays>>]
    ELSE [o EXCEPT !.cleanOldDays = IF @ = Undefined THEN <<JobCleanDays>> ELSE @]

\* the job as POST /scrape creates it and runScrapingJob, called without
\* await, leaves it at its first await: status pending, then running
StartedJob(t) ==
    [status |-> "running", startTime |-> t, endTime |-> Undefined,
     result |-> Undefined, error |-> Undefined]

\* how the promise of scrapeAndSaveToDatabase may settle
Resolved(success) == [rejected |-> FALSE, success |-> success, error |-> ""]
Rejected(error) == [rejected |-> TRUE, success |-> FALSE, error |-> error]

Settled_FailedWithoutEndTime(job, outcome, t) ==
    IF outcome.rejected
    THEN [job EXCEPT !.status = "failed", !.error = <<outcome.error>>]
    ELSE [job EXCEPT !.status = "completed", !.endTime = <<t>>,
                     !.result = <<[success |-> outcome.success]>>]

\* runScrapingJob after the await: the try block's rest, or the catch block
Settled(job, outcome, t) ==
    IF outcome.rejected
    THEN [job EXCEPT !.status = "failed", !.endTime = <<t>>,
                     !.error = <<outcome.error>>]
    ELSE [job EXCEPT !.status = "completed", !.endTime = <<t>>,
                     !.result = <<[success |-> outcome.success]>>]

\* jobs.set(jobId, job); runScrapingJob(jobId, targetUrl, scrapingOptions)
Post ==
    /\ jobSeq' = jobSeq + 1
    /\ jobs' = Put(jobs, jobSeq + 1, StartedJob(now))
    /\ served' = [handler |-> "POST /scrape", jobId |-> jobSeq + 1,
                  success |-> TRUE]
    /\ statusTrail' = Put(statusTrail, jobSeq + 1, <<"pending", "running">>)

Settle(jobId, outcome) ==
    /\ jobs' = [jobs EXCEPT ![jobId] = Settled(@, outcome, now)]
    /\ served' = [handler |-> "runScrapingJob", jobId |-> jobId]
    /\ statusTrail' = [statusTrail EXCEPT
                          ![jobId] = Append(@, Settled(jobs[jobId], outcome, now).status)]
    /\ UNCHANGED jobSeq

\* how the call of scrapeAndSaveToDatabase has ended
RunOutcome ==
    IF thrown # "" THEN Rejected(thrown) ELSE Resolved(runResult.scraping.success)

\* POST /scrape: the job is created and scrapeAndSaveToDatabase is called
J_Post ==
    /\ rpc = "server"
    /\ Post
    /\ \E o \in RequestOptions : options' = ScrapingOptions(o)
    /\ rpc' = "connect"
    /\ UNCHANGED <<now, scrapeVars, dbVars, runResult>>
    /\ UNCHANGED clientVars
    /\ UNCHANGED fnVars
    /\ UNCHANGED paceVars
    /\ UNCHANGED pairVars

\* scrapeAndSaveToDatabase has returned or thrown
J_Settle ==
    /\ rpc = "ended"
    /\ jobSeq \in DOMAIN jobs
    /\ Settle(jobSeq, RunOutcome)
    /\ rpc' = "settled"
    /\ UNCHANGED <<now, scrapeVars, dbVars, options, runResult>>
    /\ UNCHANGED clientVars
    /\ UNCHANGED fnVars
    /\ UNCHANGED paceVars
    /\ UNCHANGED pairVars

(***************************************************************************)
(* The job map under the server's handlers.  The pipeline run of a job is  *)
(* taken by its outcome only: the promise resolves with success true or    *)
(* false, or rejects.                                                      *)
(***************************************************************************)
Outcomes == {Resolved(TRUE), Resolved(FALSE), Rejected("connect failed")}

\* the clock runs on for a day and more, so that ended jobs age
JobHorizon == TicksPerDay + 1

\* cutoffTime.setHours(cutoffTime.getHours() - 24)
CutoffTime(t) == t - TicksPerDay

\* job.endTime && job.endTime < cutoffTime
Expired(job, t) == job.endTime # Undefined /\ job.endTime[1] < CutoffTime(t)

\* job.status === 'completed' || job.status === 'failed'
Finished(job) == job.status = "completed" \/ job.status = "failed"

Without(map, ids) == [k \in DOMAIN map \ ids |-> map[k]]

\* POST /scrape
PostScrape ==
    /\ jobSeq < MaxJobs
    /\ Post
    /\ UNCHANGED <<now, scrapeVars, dbVars, runVars, clientVars, fnVars, paceVars,
                   pairVars>>

\* the promise of some running job's pipeline run settles
JobSettles ==
    /\ \E jobId \in DOMAIN jobs, outcome \in Outcomes :
          /\ jobs[jobId].status = "running"
          /\ Settle(jobId, outcome)
    /\ UNCHANGED <<now, scrapeVars, dbVars, runVars, clientVars, fnVars, paceVars,
                   pairVars>>

DeleteJob_AnyStatus(jobId) ==
    /\ jobs' = Without(jobs, {jobId})
    /\ served' = [handler |-> "DELETE /jobs/:jobId", jobId |-> jobId,
                  status |-> IF jobId \in DOMAIN jobs THEN 200 ELSE 404,
                  success |-> jobId \in DOMAIN jobs]

\* app.delete('/jobs/:jobId', ...)
DeleteJob(jobId) ==
    IF jobId \notin DOMAIN jobs
    THEN /\ served' = [handler |-> "DELETE /jobs/:jobId", jobId |-> jobId,
                       status |-> 404, success |-> FALSE]
         /\ UNCHANGED jobs
    ELSE IF jobs[jobId].status = "running"
    THEN /\ served' = [handler |-> "DELETE /jobs/:jobId", jobId |-> jobId,
                       status |-> 400, success |-> FALSE]
         /\ UNCHANGED jobs
    ELSE /\ jobs' = Without(jobs, {jobId})
         /\ served' = [handler |-> "DELETE /jobs/:jobId", jobId |-> jobId,
                       status |-> 200, success |-> TRUE]

DeleteJobRequest ==
    /\ \E jobId \in 1..MaxJobs : DeleteJob(jobId)
    /\ UNCHANGED <<jobSeq, statusTrail>>
    /\ UNCHANGED <<now, scrapeVars, dbVars, runVars, clientVars, fnVars, paceVars,
                   pairVars>>

\* app.delete('/jobs', ...)
ClearJobs ==
    /\ jobs' = Without(jobs, {k \in DOMAIN jobs : Finished(jobs[k])})
    /\ served' = [handler |-> "DELETE /jobs",
                  cleared |-> Cardinality({k \in DOMAIN jobs : Finished(jobs[k])}),
                  remaining |-> Cardinality(DOMAIN jobs'), success |-> TRUE]
    /\ UNCHANGED <<jobSeq, statusTrail>>
    /\ UNCHANGED <<now, scrapeVars, dbVars, runVars, clientVars, fnVars, paceVars,
                   pairVars>>

\* the setInterval callback
CleanupJobs ==
    /\ jobs' = Without(jobs, {k \in DOMAIN jobs : Expired(jobs[k], now)})
    /\ served' = [handler |-> "cleanup", at |-> now]
    /\ UNCHANGED <<jobSeq, statusTrail>>
    /\ UNCHANGED <<now, scrapeVars, dbVars, runVars, clientVars, fnVars, paceVars,
                   pairVars>>

\* time passes on the server
ServerTick ==
    /\ now < JobHorizon
    /\ now' = now + 1
    /\ UNCHANGED <<scrapeVars, dbVars, runVars, clientVars, fnVars, jobVars, paceVars,
                   pairVars>>

(***************************************************************************)
(* The API handlers that read or write the table.  Each request builds a   *)
(* DatabaseService of its own, directly or inside a ScraperDatabaseService *)
(* operation; requests are taken one after the other.                      *)
(***************************************************************************)
ServiceHandlers == {"GET /stats", "GET /properties", "POST /export"}
DirectHandlers == {"GET /whatsapp/unsent", "POST /whatsapp/mark-sent"}

\* a request arrives: new ScraperDatabaseService() or new DatabaseService()
Api_Request ==
    /\ rpc = "api"
    /\ ops < MaxOps
    /\ ops' = ops + 1
    /\ \E h \in ServiceHandlers \cup DirectHandlers :
          served' = [handler |-> h, status |-> 0]
    /\ connection' = "null"
    /\ thrown' = ""
    /\ rpc' = "apiConnect"
    /\ UNCHANGED db
    /\ UNCHANGED <<inTx, txSnapshot, dpc, batch, valid, idx, exists, counts,
                   saveStats, dbBefore, written>>
    /\ UNCHANGED <<options, runResult>>
    /\ UNCHANGED <<jobs, jobSeq, statusTrail>>
    /\ UNCHANGED <<now, scrapeVars, clientVars, fnVars, paceVars, pairVars>>

\* await connect(): the service operation's catch rethrows and its finally
\* block runs; the handler's own catch block answers
Api_Connect ==
    /\ rpc = "apiConnect"
    /\ \/ /\ connection' = "open"
          /\ rpc' = "apiQuery"
          /\ UNCHANGED thrown
       \/ /\ thrown' = "connect failed"
          /\ rpc' = IF served.handler \in DirectHandlers THEN "apiReply"
                    ELSE "apiDisconnect"
          /\ UNCHANGED connection
    /\ UNCHANGED <<db, ops, served>>
    /\ UNCHANGED <<inTx, txSnapshot, dpc, batch, valid, idx, exists, counts,
                   saveStats, dbBefore, written>>
    /\ UNCHANGED <<options, runResult>>
    /\ UNCHANGED <<jobs, jobSeq, statusTrail>>
    /\ UNCHANGED <<now, scrapeVars, clientVars, fnVars, paceVars, pairVars>>

\* the query of the handler: getStatistics, getAllProperties,
\* getPropertiesWithoutWhatsAppMessage or markAllPropertiesAsWhatsAppSent
Api_Query ==
    /\ rpc = "apiQuery"
    /\ \/ /\ db' = IF served.handler = "POST /whatsapp/mark-sent"
                    THEN MarkedSent(db, now) ELSE db
          /\ rpc' = IF served.handler = "POST /export" /\ DOMAIN db # {}
                    THEN "apiExport" ELSE "apiDisconnect"
          /\ UNCHANGED thrown
       \/ /\ thrown' = "query failed"
          /\ rpc' = IF served.handler \in DirectHandlers THEN "apiReply"
                    ELSE "apiDisconnect"
          /\ UNCHANGED db
    /\ UNCHANGED <<connection, ops, served>>
    /\ UNCHANGED <<inTx, txSnapshot, dpc, batch, valid, idx, exists, counts,
                   saveStats, dbBefore, written>>
    /\ UNCHANGED <<options, runResult>>
    /\ UNCHANGED <<jobs, jobSeq, statusTrail>>
    /\ UNCHANGED <<now, scrapeVars, clientVars, fnVars, paceVars, pairVars>>

\* const csvPath = await this.csvExport.exportToCSVEnhanced(properties)
Api_Export ==
    /\ rpc = "apiExport"
    /\ \/ UNCHANGED thrown
       \/ thrown' = "export failed"
    /\ rpc' = "apiDisconnect"
    /\ UNCHANGED <<connection, db, ops, served>>
    /\ UNCHANGED <<inTx, txSnapshot, dpc, batch, valid, idx, exists, counts,
                   saveStats, dbBefore, written>>
    /\ UNCHANGED <<options, runResult>>
    /\ UNCHANGED <<jobs, jobSeq, statusTrail>>
    /\ UNCHANGED <<now, scrapeVars, clientVars, fnVars, paceVars, pairVars>>

\* await disconnect(): in the finally block of the service operation, after
\* the query in the whatsapp handlers
Api_Disconnect ==
    /\ rpc = "apiDisconnect"
    /\ IF connection = "null"
       THEN UNCHANGED <<connection, thrown>>
       ELSE \/ /\ connection' = "null"
               /\ UNCHANGED thrown
            \/ /\ thrown' = "disconnect failed"
               /\ UNCHANGED connection
    /\ rpc' = "apiReply"
    /\ UNCHANGED <<db, ops, served>>
    /\ UNCHANGED <<inTx, txSnapshot, dpc, batch, valid, idx, exists, counts,
                   saveStats, dbBefore, written>>
    /\ UNCHANGED <<options, runResult>>
    /\ UNCHANGED <<jobs, jobSeq, statusTrail>>
    /\ UNCHANGED <<now, scrapeVars, clientVars, fnVars, paceVars, pairVars>>

\* res.json({ success: true, ... }), or the catch block's res.status(500)
Api_Reply ==
    /\ rpc = "apiReply"
    /\ served' = [served EXCEPT !.status = IF thrown = "" THEN 200 ELSE 500]
    /\ rpc' = "api"
    /\ UNCHANGED <<connection, db, thrown, ops>>
    /\ UNCHANGED <<inTx, txSnapshot, dpc, batch, valid, idx, exists, counts,
                   saveStats, dbBefore, written>>
    /\ UNCHANGED <<options, runResult>>
    /\ UNCHANGED <<jobs, jobSeq, statusTrail>>
    /\ UNCHANGED <<now, scrapeVars, clientVars, fnVars, paceVars, pairVars>>

(***************************************************************************)
(* Concurrent sessions.  Every pipeline run and every request handler      *)
(* opens a connection of its own (new DatabaseService(), connect), so      *)
(* their statements interleave on one InnoDB table.  A row of the table    *)
(* carries the session that holds its lock and the version it had before   *)
(* that session's open transaction changed it.  Reads inside a transaction *)
(* are consistent reads at REPEATABLE READ, the engine's default: they see *)
(* what was committed at the transaction's first read, and its own writes. *)
(* A statement that needs a row locked by another session waits.           *)
(***************************************************************************)
Sessions == {1, 2}
NoSession == 0

IdleSession ==
    [op |-> "none", pc |-> "idle", batch |-> <<>>, valid |-> <<>>, idx |-> 1,
     exists |-> FALSE, counts |-> ZeroCounts, snapshot |-> Undefined]

\* a row at rest: committed and unlocked
StoredRow(rid, id, data) ==
    [rid |-> rid, id |-> id, data |-> data, owner |-> NoSession,
     fresh |-> FALSE, was |-> Undefined]

\* the rows of a table given as id -> row, numbered from rid n
RECURSIVE StoredFrom(_, _)
StoredFrom(rows, n) ==
    IF DOMAIN rows = {} THEN {}
    ELSE LET k == CHOOSE k \in DOMAIN rows : TRUE
         IN  {StoredRow(n, k, rows[k])}
             \cup StoredFrom([j \in DOMAIN rows \ {k} |-> rows[j]], n + 1)

Stored(rows) == StoredFrom(rows, 1)

\* the ids of the committed rows: what a consistent read may see
CommittedIds(rows) == {r.id : r \in {q \in rows : ~q.fresh}}

\* some row the statement needs is locked by another session
LockedByOther(rows, s, needed) ==
    \E r \in needed : r.owner # NoSession /\ r.owner # s

UpsertStatement_KeepsFirst(rows, s, p, t, rid) ==
    IF \E r \in rows : r.id = p.id
    THEN {IF r.id # p.id THEN r
          ELSE [r EXCEPT !.owner = s,
                         !.was = IF r.owner = s THEN r.was ELSE <<r.data>>]
          : r \in rows}
    ELSE rows \cup {[StoredRow(rid, p.id, InsertedRow(p, t))
                       EXCEPT !.owner = s, !.fresh = TRUE]}

UpsertStatement_PlainInsert(rows, s, p, t, rid) ==
    rows \cup {[StoredRow(rid, p.id, InsertedRow(p, t))
                   EXCEPT !.owner = s, !.fresh = TRUE]}

\* INSERT ... ON DUPLICATE KEY UPDATE on PRIMARY KEY id, inside a transaction
UpsertStatement(rows, s, p, t, rid) ==
    IF \E r \in rows : r.id = p.id
    THEN {IF r.id # p.id THEN r
          ELSE [r EXCEPT !.data = UpdatedRow(r.data, p, t),
                         !.owner = s,
                         !.was = IF r.owner = s THEN r.was ELSE <<r.data>>]
          : r \in rows}
    ELSE rows \cup {[StoredRow(rid, p.id, InsertedRow(p, t))
                       EXCEPT !.owner = s, !.fresh = TRUE]}

\* COMMIT: the session's changes become the committed versions
CommittedBy(rows, s) ==
    {IF r.owner = s THEN StoredRow(r.rid, r.id, r.data) ELSE r : r \in rows}

\* ROLLBACK: rows the session inserted go, rows it updated get their version back
RolledBackBy(rows, s) ==
    {IF r.owner = s THEN StoredRow(r.rid, r.id, r.was[1]) ELSE r
        : r \in {q \in rows : ~(q.owner = s /\ q.fresh)}}

\* WHERE scraped_at < DATE_SUB(NOW(), INTERVAL ? DAY)
TooOld(rows, days, t) == {r \in rows : r.data.scraped_at < t - days * TicksPerDay}

\* WHERE isWhatsappMessageSent = FALSE
UnsentRows(rows) == {r \in rows : ~r.data.isWhatsappMessageSent}

\* the batches two runs that scrape the same site at once may save
LinklessA == Item("a", <<>>, "4000")

PairBatches ==
    {<<ExampleA>>, <<ExampleA2, ExampleC>>, <<BlankLink>>,
     <<ExampleA2, ExampleA, LinklessA>>}

Session(s, locals) == sess' = [sess EXCEPT ![s] = locals]

\* upsertProperties up to its try block, on the connection of session s
T_Upsert(s) ==
    /\ sess[s].pc = "idle"
    /\ \E properties \in PairBatches :
          Session(s, [sess[s] EXCEPT
                         !.op = "upsertProperties",
                         !.batch = properties,
                         !.valid = SelectSeq(properties, HasLink),
                         !.counts = [ZeroCounts EXCEPT !.skipped =
                             Len(properties) - Len(SelectSeq(properties, HasLink))],
                         !.pc = "begin"])
    /\ UNCHANGED <<storage, nextRid>>
    /\ UNCHANGED <<now, scrapeVars, dbVars, runVars, clientVars, fnVars, jobVars,
                   paceVars>>

\* await this.connection.beginTransaction()
T_Begin(s) ==
    /\ sess[s].pc = "begin"
    /\ \/ Session(s, [sess[s] EXCEPT
                          !.pc = IF sess[s].valid = <<>> THEN "commit" ELSE "check"])
       \/ Session(s, [sess[s] EXCEPT !.pc = "rollback"])
    /\ UNCHANGED <<storage, nextRid>>
    /\ UNCHANGED <<now, scrapeVars, dbVars, runVars, clientVars, fnVars, jobVars,
                   paceVars>>

\* what the transaction of session s reads: its snapshot, taken now if this
\* is its first read
ReadView(s) ==
    IF sess[s].snapshot = Undefined THEN <<CommittedIds(storage)>>
    ELSE sess[s].snapshot

\* SELECT id FROM rental_apartments WHERE id = ?
T_Check(s) ==
    /\ sess[s].pc = "check"
    /\ \/ Session(s, [sess[s] EXCEPT
                          !.snapshot = ReadView(s),
                          !.exists =
                              \/ sess[s].valid[sess[s].idx].id \in ReadView(s)[1]
                              \/ \E r \in storage :
                                    /\ r.owner = s
                                    /\ r.id = sess[s].valid[sess[s].idx].id,
                          !.pc = "write"])
       \/ Session(s, [sess[s] EXCEPT !.pc = "rollback"])
    /\ UNCHANGED <<storage, nextRid>>
    /\ UNCHANGED <<now, scrapeVars, dbVars, runVars, clientVars, fnVars, jobVars,
                   paceVars>>

\* await this.upsertProperty(property); if (exists) updated++ else inserted++
T_Write(s) ==
    /\ sess[s].pc = "write"
    /\ \/ /\ ~LockedByOther(storage, s,
                   {r \in storage : r.id = sess[s].valid[sess[s].idx].id})
          /\ storage' = UpsertStatement(storage, s, sess[s].valid[sess[s].idx],
                                        now, nextRid)
          /\ nextRid' = nextRid + Cardinality(storage') - Cardinality(storage)
          /\ Session(s, [sess[s] EXCEPT
                   !.counts =
                       IF sess[s].exists
                       THEN [@ EXCEPT !.updated = @ + 1]
                       ELSE [@ EXCEPT !.inserted = @ + 1],
                   !.idx = @ + 1,
                   !.pc = IF sess[s].idx < Len(sess[s].valid) THEN "check"
                          ELSE "commit"])
       \/ /\ Session(s, [sess[s] EXCEPT !.pc = "rollback"])
          /\ UNCHANGED <<storage, nextRid>>
    /\ UNCHANGED <<now, scrapeVars, dbVars, runVars, clientVars, fnVars, jobVars,
                   paceVars>>

\* await this.connection.commit(); return { inserted, updated, skipped }
T_Commit(s) ==
    /\ sess[s].pc = "commit"
    /\ \/ /\ storage' = CommittedBy(storage, s)
          /\ Session(s, [sess[s] EXCEPT !.pc = "returned"])
       \/ /\ Session(s, [sess[s] EXCEPT !.pc = "rollback"])
          /\ UNCHANGED storage
    /\ UNCHANGED nextRid
    /\ UNCHANGED <<now, scrapeVars, dbVars, runVars, clientVars, fnVars, jobVars,
                   paceVars>>

\* catch (error) { await this.connection.rollback(); throw error }
T_Rollback(s) ==
    /\ sess[s].pc = "rollback"
    /\ storage' = RolledBackBy(storage, s)
    /\ Session(s, [sess[s] EXCEPT !.pc = "threw"])
    /\ UNCHANGED nextRid
    /\ UNCHANGED <<now, scrapeVars, dbVars, runVars, clientVars, fnVars, jobVars,
                   paceVars>>

\* deleteOldProperties(days) on the connection of session s
T_Purge(s) ==
    /\ sess[s].pc = "idle"
    /\ \/ \E days \in DaysChoices :
            /\ ~LockedByOther(storage, s, TooOld(storage, days, now))
            /\ storage' = storage \ TooOld(storage, days, now)
            /\ Session(s, [sess[s] EXCEPT !.op = "deleteOldProperties",
                                          !.pc = "returned"])
       \/ /\ Session(s, [sess[s] EXCEPT !.op = "deleteOldProperties",
                                         !.pc = "threw"])
          /\ UNCHANGED storage
    /\ UNCHANGED nextRid
    /\ UNCHANGED <<now, scrapeVars, dbVars, runVars, clientVars, fnVars, jobVars,
                   paceVars>>

\* markAllPropertiesAsWhatsAppSent() on the connection of session s
T_MarkSent(s) ==
    /\ sess[s].pc = "idle"
    /\ \/ /\ ~LockedByOther(storage, s, UnsentRows(storage))
          /\ storage' =
                {IF r \in UnsentRows(storage)
                 THEN [r EXCEPT !.data.isWhatsappMessageSent = TRUE,
                                !.data.updated_at = now]
                 ELSE r : r \in storage}
          /\ Session(s, [sess[s] EXCEPT !.op = "markAllPropertiesAsWhatsAppSent",
                                        !.pc = "returned"])
       \/ /\ Session(s, [sess[s] EXCEPT !.op = "markAllPropertiesAsWhatsAppSent",
                                         !.pc = "threw"])
          /\ UNCHANGED storage
    /\ UNCHANGED nextRid
    /\ UNCHANGED <<now, scrapeVars, dbVars, runVars, clientVars, fnVars, jobVars,
                   paceVars>>

\* time passes before a statement that reads CURRENT_TIMESTAMP or NOW()
T_Tick ==
    /\ now < MaxTime
    /\ \E s \in DOMAIN sess : sess[s].pc \in {"idle", "write"}
    /\ now' = now + 1
    /\ UNCHANGED <<scrapeVars, dbVars, runVars, clientVars, fnVars, jobVars, paceVars,
                   pairVars>>

(***************************************************************************)
(* Initial states.  A run of the pipeline starts on the table earlier runs *)
(* have left: empty, or holding listing a, first seen some days ago and    *)
(* already notified.                                                       *)
(***************************************************************************)
OldRow ==
    [price |-> "4500", rooms |-> "3 rooms", link |-> <<BaseOrigin, ItemSegment, "a">>,
     isWhatsappMessageSent |-> TRUE, scraped_at |-> 0 - 5, updated_at |-> 0 - 5]

InitialTables == {NoRows, Put(NoRows, ItemId("a"), OldRow)}

\* a row of a recent run, not yet notified
RecentRow ==
    [price |-> "6500", rooms |-> "4 rooms", link |-> <<BaseOrigin, ItemSegment, "b">>,
     isWhatsappMessageSent |-> FALSE, scraped_at |-> 0 - 1, updated_at |-> 0 - 1]

\* the tables a client of DatabaseService may find
ClientTables ==
    InitialTables \cup {Put(Put(NoRows, ItemId("a"), OldRow), ItemId("b"), RecentRow)}

InitWith(mode, tables, args) ==
    /\ now = 0
    /\ browser = "null"
    /\ openTabs = 0
    /\ pc = "idle"
    /\ currentPage = 1
    /\ allProperties = <<>>
    /\ pageResult = NoResult
    /\ title = {}
    /\ hasNextPage = FALSE
    /\ result = NoResult
    /\ scraped = <<>>
    /\ probed = <<>>
    /\ pageResults = <<>>
    /\ evasions = 0
    /\ connection = "null"
    /\ db \in tables
    /\ inTx = FALSE
    /\ txSnapshot = NoRows
    /\ dpc = "off"
    /\ batch = <<>>
    /\ valid = <<>>
    /\ idx = 1
    /\ exists = FALSE
    /\ counts = ZeroCounts
    /\ saveStats = NoStats
    /\ thrown = ""
    /\ dbBefore = NoRows
    /\ written = <<>>
    /\ ops = 0
    /\ rpc = mode
    /\ options = NoOptions
    /\ runResult = NoResult
    /\ arg = 0
    /\ log = <<>>
    /\ fnArgs \in args
    /\ fnValue = NoValue
    /\ jobs = <<>>
    /\ jobSeq = 0
    /\ served = [handler |-> "none"]
    /\ statusTrail = <<>>
    /\ delay = 0
    /\ paced = FALSE
    /\ storage = IF mode = "sessions" THEN Stored(db) ELSE {}
    /\ nextRid = Cardinality(storage) + 1
    /\ sess = IF mode = "sessions" THEN [s \in Sessions |-> IdleSession] ELSE <<>>

(***************************************************************************)
(* SpecScrape: scrapeProperties called on its own, then closeBrowser.      *)
(***************************************************************************)
InitScrape == InitWith("none", {NoRows}, {NoArgs})

NextScrape ==
    \/ SP_Call \/ SP_InitBrowser \/ SP_Loop
    \/ SSP_NewPage \/ SSP_Goto \/ SSP_CheckTitle \/ SSP_Evade \/ SSP_Extract
    \/ SSP_Close \/ SP_HandlePage
    \/ CNP_NewPage \/ CNP_Evaluate \/ CNP_Close \/ SP_AfterProbe
    \/ CloseBrowser
    \/ Tick

SpecScrape == InitScrape /\ [][NextScrape]_vars

(***************************************************************************)
(* SpecDb: a client working on DatabaseService.                            *)
(***************************************************************************)
InitDb == InitWith("none", ClientTables, {NoArgs})

NextDb ==
    \/ UP_Begin \/ UP_Check \/ UP_Write \/ UP_Commit \/ UP_Rollback
    \/ C_Connect \/ C_Upsert \/ C_Resume \/ C_Purge \/ C_PurgeRun \/ C_MarkSent
    \/ C_FetchUnsent
    \/ C_Disconnect
    \/ Tick

SpecDb == InitDb /\ [][NextDb]_vars

(***************************************************************************)
(* SpecRun: one call of scrapeAndSaveToDatabase.                           *)
(***************************************************************************)
InitRun == InitWith("idle", InitialTables, {NoArgs})

NextRun ==
    \/ R_Call \/ R_Connect \/ R_CreateTable \/ R_Purge \/ R_Scrape
    \/ SP_InitBrowser \/ SP_Loop
    \/ SSP_NewPage \/ SSP_Goto \/ SSP_CheckTitle \/ SSP_Evade \/ SSP_Extract
    \/ SSP_Close \/ SP_HandlePage
    \/ CNP_NewPage \/ CNP_Evaluate \/ CNP_Close \/ SP_AfterProbe
    \/ R_Save
    \/ UP_Begin \/ UP_Check \/ UP_Write \/ UP_Commit \/ UP_Rollback
    \/ R_Export \/ R_ExportFailed \/ R_Stats \/ R_Disconnect \/ R_CloseBrowser
    \/ Tick

SpecRun == InitRun /\ [][NextRun]_vars

(***************************************************************************)
(* SpecJob: one POST /scrape request and the job it runs.                  *)
(***************************************************************************)
InitJob == InitWith("server", InitialTables, {NoArgs})

NextJob ==
    \/ J_Post \/ R_Connect \/ R_CreateTable \/ R_Purge \/ R_Scrape
    \/ SP_InitBrowser \/ SP_Loop
    \/ SSP_NewPage \/ SSP_Goto \/ SSP_CheckTitle \/ SSP_Evade \/ SSP_Extract
    \/ SSP_Close \/ SP_HandlePage
    \/ CNP_NewPage \/ CNP_Evaluate \/ CNP_Close \/ SP_AfterProbe
    \/ R_Save
    \/ UP_Begin \/ UP_Check \/ UP_Write \/ UP_Commit \/ UP_Rollback
    \/ R_Export \/ R_ExportFailed \/ R_Stats \/ R_Disconnect \/ R_CloseBrowser
    \/ J_Settle
    \/ Tick

SpecJob == InitJob /\ [][NextJob]_vars

(***************************************************************************)
(* SpecPair: two sessions, each running one DatabaseService operation on   *)
(* the shared table.                                                       *)
(***************************************************************************)
InitPair == InitWith("sessions", ClientTables, {NoArgs})

NextPair ==
    \/ \E s \in Sessions : T_Upsert(s)
    \/ \E s \in Sessions : T_Begin(s)
    \/ \E s \in Sessions : T_Check(s)
    \/ \E s \in Sessions : T_Write(s)
    \/ \E s \in Sessions : T_Commit(s)
    \/ \E s \in Sessions : T_Rollback(s)
    \/ \E s \in Sessions : T_Purge(s)
    \/ \E s \in Sessions : T_MarkSent(s)
    \/ T_Tick

SpecPair == InitPair /\ [][NextPair]_vars

(***************************************************************************)
(* SpecJobs: the job map under POST /scrape, the settling of runs, the two *)
(* DELETE handlers and the periodic cleanup.                               *)
(***************************************************************************)
InitJobs == InitWith("jobs", {NoRows}, {NoArgs})

NextJobs ==
    \/ PostScrape \/ JobSettles \/ DeleteJobRequest \/ ClearJobs \/ CleanupJobs
    \/ ServerTick

SpecJobs == InitJobs /\ [][NextJobs]_vars

(***************************************************************************)
(* A function applied on its own: the arguments are drawn in the initial   *)
(* state, one step applies the function.                                   *)
(***************************************************************************)
Applied == fnValue # NoValue

Apply(value) ==
    /\ ~Applied
    /\ fnValue' = [value |-> value]
    /\ UNCHANGED <<now, scrapeVars, dbVars, runVars, clientVars, fnArgs, jobVars, paceVars,
                   pairVars>>

(***************************************************************************)
(* SpecProbe: the evaluate closure of checkForNextPage on a page k >= 2.   *)
(***************************************************************************)
ProbeArgs ==
    [pageText : PageTexts, pageLinks : PageLinkSets,
     currentPageNum : 2..maxPages, hasResults : BOOLEAN]

InitProbe == InitWith("fn", {NoRows}, ProbeArgs)

CNP_Closure ==
    Apply(NextPageProbe(fnArgs.pageText, fnArgs.pageLinks,
                        fnArgs.currentPageNum, fnArgs.hasResults))

NextProbe == CNP_Closure

SpecProbe == InitProbe /\ [][NextProbe]_vars

(***************************************************************************)
(* SpecApi: requests to the handlers that open a database connection.      *)
(***************************************************************************)
InitApi == InitWith("api", ClientTables, {NoArgs})

NextApi ==
    \/ Api_Request \/ Api_Connect \/ Api_Query \/ Api_Export \/ Api_Disconnect
    \/ Api_Reply

SpecApi == InitApi /\ [][NextApi]_vars

(***************************************************************************)
(* SpecFallback: the catch block of checkForNextPage on the url that       *)
(* scrapeProperties builds for a page k >= 2.                              *)
(***************************************************************************)
MaxParams == 2

ParamNames == {<<"city">>, PageParam, <<"sub", "page">>}
Params == {Param(name, value) : name \in ParamNames, value \in {1, 2, 7}}

Urls == UNION {[1..n -> Params] : n \in 0..MaxParams}

FallbackArgs == [url : Urls, pageNumber : 2..maxPages]

InitFallback == InitWith("fn", {NoRows}, FallbackArgs)

CNP_Catch ==
    Apply(ProbeFallback(AddPageParameter(fnArgs.url, fnArgs.pageNumber)))

NextFallback == CNP_Catch

SpecFallback == InitFallback /\ [][NextFallback]_vars

(***************************************************************************)
(* SpecExtract: the selector loops of the extraction closure on a document.*)
(***************************************************************************)
Containers ==
    {NoContainer} \cup {Container(lists) : lists \in [1..MaxSelectors -> Doms]}

Documents == [1..MaxSelectors -> Containers]

ExtractArgs == [doc : Documents, t : {1}]

InitExtract == InitWith("fn", {NoRows}, ExtractArgs)

Evaluate == Apply(SelectorLoop(fnArgs.doc, fnArgs.t, 1))

NextExtract == Evaluate

SpecExtract == InitExtract /\ [][NextExtract]_vars

(***************************************************************************)
(* SpecItem: the body of forEach on one item element.  The elements are    *)
(* every combination of a link, of each field found or not, and of a text  *)
(* length below, at and above the minimum.                                 *)
(***************************************************************************)
Hrefs == {<<>>, <<ItemSegment, "a">>, <<"/yad1/">>}

Found(text) == {"", text}

Elements ==
    {Element(href, price, rooms, area, location, floor, textLen) :
        href \in Hrefs, price \in Found("5000"), rooms \in Found("3 rooms"),
        area \in Found("80 sqm"), location \in Found("Haifa"),
        floor \in Found("floor 2"),
        textLen \in {20, MinTextLength, MinTextLength + 1}}

ItemArgs == [element : Elements, t : {1}, index : {0, 1}]

InitItem == InitWith("fn", {NoRows}, ItemArgs)

ForEachBody == Apply(ExtractElement(fnArgs.element, fnArgs.t, fnArgs.index))

NextItem == ForEachBody

SpecItem == InitItem /\ [][NextItem]_vars

(***************************************************************************)
(* SpecStats: the queries of getStatistics on a table of price texts.  A   *)
(* price text is a sequence of characters.                                 *)
(***************************************************************************)
DigitChars == {"0", "1", "2", "3", "4", "5", "6", "7", "8", "9"}

IsDigit(c) == c \in DigitChars

DigitValue(c) ==
    CASE c = "0" -> 0 [] c = "1" -> 1 [] c = "2" -> 2 [] c = "3" -> 3
      [] c = "4" -> 4 [] c = "5" -> 5 [] c = "6" -> 6 [] c = "7" -> 7
      [] c = "8" -> 8 [] c = "9" -> 9

\* REGEXP_REPLACE(price, '[^0-9]', '')
StripNonDigits(text) == SelectSeq(text, IsDigit)

\* CAST(... AS UNSIGNED) of a string of digits
RECURSIVE DecimalValue(_)
DecimalValue(digits) ==
    IF digits = <<>> THEN 0
    ELSE 10 * DecimalValue(SubSeq(digits, 1, Len(digits) - 1))
         + DigitValue(digits[Len(digits)])

\* WHERE price REGEXP '[0-9]'
HasDigit(text) == \E i \in 1..Len(text) : IsDigit(text[i])

PricedRows_AllRows(prices) == prices

PricedRows(prices) == SelectSeq(prices, HasDigit)

RECURSIVE SumPrices(_)
SumPrices(prices) ==
    IF prices = <<>> THEN 0
    ELSE DecimalValue(StripNonDigits(Head(prices))) + SumPrices(Tail(prices))

\* Math.round(sum / count): the nearest integer, halves upwards
RoundedMean(sum, count) == (2 * sum + count) \div (2 * count)

\* AVG(...) is NULL over no row: avgPrice || 0
AvgPrice(prices) ==
    IF PricedRows(prices) = <<>> THEN 0
    ELSE RoundedMean(SumPrices(PricedRows(prices)), Len(PricedRows(prices)))

\* return { totalProperties: total, ..., avgPrice: Math.round(avgPrice), ... }
Statistics(prices) ==
    [totalProperties |-> Len(prices), avgPrice |-> AvgPrice(prices)]

\* price texts as scraped; "s" stands for the currency sign
PriceTexts ==
    { <<"5", ",", "0", "0", "0", "s">>, <<"7", ",", "0", "0", "0", "s">>,
      <<"P", "r", "i", "c", "e">>, <<"s">>, <<"1", "2">>, <<"9", "-", "1">> }

RECURSIVE PriceColumns(_)
PriceColumns(n) ==
    IF n = 0 THEN {<<>>}
    ELSE PriceColumns(n - 1)
         \cup {Append(c, t) : c \in {d \in PriceColumns(n - 1) : Len(d) = n - 1},
                              t \in PriceTexts}

StatsArgs == [prices : PriceColumns(MaxRows)]

InitStats == InitWith("fn", {NoRows}, StatsArgs)

GetStatistics == Apply(Statistics(fnArgs.prices))

NextStats == GetStatistics

SpecStats == InitStats /\ [][NextStats]_vars

(***************************************************************************)
(* Persistence properties (SpecRun, SpecDb).                               *)
(***************************************************************************)
\* the save step of a pipeline run has returned to scrapeAndSaveToDatabase
SaveReturned == rpc = "saving" /\ dpc = "returned"

\* a stored row has a link and a price
RowEligible(row) == Trim(row.link) # <<>> /\ row.price # PriceNotFound

\* C1: of the records a scrape produced and scrapeAndSaveToDatabase passed on,
\* exactly those with a non-empty link and a price other than "Price not
\* found" are written, in order; no other record is written or stored.
C1_WrittenIffEligible ==
    /\ \A i \in 1..Len(written) : Eligible(written[i])
    /\ \A k \in DOMAIN db : RowEligible(db[k])
    /\ SaveReturned =>
          /\ written = SelectSeq(result.data, Eligible)
          /\ \A i \in 1..Len(written) : written[i].id \in DOMAIN db

C1_Witness ==
    /\ SaveReturned
    /\ written # <<>>
    /\ \E i \in 1..Len(result.data) : ~HasLink(result.data[i])
    /\ \E i \in 1..Len(result.data) :
          HasLink(result.data[i]) /\ result.data[i].price = PriceNotFound

\* C2: the skipped count a save reports is the number of input records that
\* are not eligible (link missing, or price "Price not found"); the example
\* batch saved into empty storage reports inserted=1, updated=0, skipped=2.
C2_SkippedCountsIneligible ==
    dpc = "returned" =>
        /\ saveStats.skipped = Len(batch) - Len(SelectSeq(batch, Eligible))
        /\ (batch = ExampleBatch /\ dbBefore = NoRows) =>
              saveStats = [inserted |-> 1, updated |-> 0, skipped |-> 2]

\* the upsert statement runs in this step, on an id the table holds
UpdateStep ==
    /\ dpc = "write"
    /\ idx' = idx + 1
    /\ valid[idx].id \in DOMAIN db

\* C3 as stated: saving a record whose id is stored leaves the number of rows
\* unchanged, advances the row's updated_at and keeps its scraped_at.
C3_UpdateAdvancesTimestamp ==
    [][UpdateStep =>
          /\ Cardinality(DOMAIN db') = Cardinality(DOMAIN db)
          /\ db'[valid[idx].id].updated_at > db[valid[idx].id].updated_at
          /\ db'[valid[idx].id].scraped_at = db[valid[idx].id].scraped_at]_vars

\* C3 amended: saving a record whose id is stored leaves the set of rows
\* unchanged, sets the row's updated_at to the time of the save (never
\* earlier than before, later whenever the clock has moved on since) and
\* keeps its scraped_at.
C3_UpdateInPlace ==
    [][UpdateStep =>
          /\ DOMAIN db' = DOMAIN db
          /\ db'[valid[idx].id].updated_at = now
          /\ db'[valid[idx].id].updated_at >= db[valid[idx].id].updated_at
          /\ now > db[valid[idx].id].updated_at =>
                db'[valid[idx].id].updated_at > db[valid[idx].id].updated_at
          /\ db'[valid[idx].id].scraped_at = db[valid[idx].id].scraped_at]_vars

C3_Witness ==
    /\ dpc = "returned"
    /\ saveStats.updated >= 1
    /\ \E i \in 1..Len(written) :
          /\ written[i].id \in DOMAIN dbBefore
          /\ db[written[i].id].updated_at > dbBefore[written[i].id].updated_at
          /\ db[written[i].id].scraped_at = dbBefore[written[i].id].scraped_at
          /\ db[written[i].id].scraped_at < now

Returned == result # NoResult

\* scrapeSinglePage has returned for page n, successfully, with no records
EmptyPage(n) ==
    n <= Len(pageResults) /\ pageResults[n].success /\ pageResults[n].data = <<>>

\* scrapeSinglePage has returned success=false for page n
FailedPage(n) == n <= Len(pageResults) /\ ~pageResults[n].success

\* scrapeSinglePage has returned for page n blocked: the title matched a
\* challenge signature before and after the evasion attempt
BlockedPage(n) == FailedPage(n) /\ pageResults[n].error = BlockedError

\* pages are scraped in the order 1, 2, 3, ...
ScrapedInOrder == \A i \in 1..Len(scraped) : scraped[i] = i

\* page n is the last page scraped and the run ends with pages 1..n-1
StopsAt(n) ==
    /\ ScrapedInOrder
    /\ Len(scraped) = n
    /\ pc \in {"page", "done", "closed"}
    /\ pc # "page" => /\ Returned
                      /\ result.data = ConcatPages(pageResults, n - 1)
                      /\ result.totalItems = SumPages(pageResults, n - 1)

\* C5: when the extraction of page N yields zero records, no page after N is
\* scraped and the run returns the in-order concatenation of the records of
\* pages 1..N-1, totalItems being the sum of their counts.
C5_EmptyPageEndsPagination ==
    \A n \in 1..Len(pageResults) : EmptyPage(n) => StopsAt(n)

C5_Witness ==
    /\ pc = "done"
    /\ Len(pageResults) = 3
    /\ EmptyPage(3)
    /\ pageResults[1].data # pageResults[2].data
    /\ result.totalItems = 5

C7_FailureKeepsPartialData ==
    /\ \A k \in 1..Len(pageResults) : FailedPage(k) => StopsAt(k)
    /\ (Returned /\ Len(scraped) > Len(pageResults)) =>
            /\ ScrapedInOrder
            /\ Len(scraped) = Len(pageResults) + 1
            /\ ~result.success
    /\ Returned => result.data = ConcatPages(pageResults, Len(pageResults))
    /\ allProperties =
         ConcatPages(pageResults,
                     IF pc = "page" THEN Len(pageResults) - 1 ELSE Len(pageResults))

C7_Witness ==
    /\ pc = "done"
    /\ Len(scraped) = 3
    /\ Len(pageResults) = 2
    /\ ~result.success
    /\ pageResults[1].data # pageResults[2].data
    /\ Len(result.data) = 5

\* C8: when pagination stops because a page's render or guard check failed,
\* the returned result carries that page's failure reason in its error field.
C8_FailureReasonAttached ==
    \A k \in 1..Len(pageResults) :
        (FailedPage(k) /\ Returned) => result.error = pageResults[k].error

\* C9: no page with an index greater than 5 is scraped, whatever the probe
\* answers: at most 5 pages are scraped and then the run returns.
C9_AtMostFivePages ==
    /\ \A i \in 1..Len(scraped) : scraped[i] <= 5
    /\ Len(scraped) <= 5
    /\ (pc = "loop" /\ Len(scraped) = 5) => currentPage > maxPages

C9_Witness ==
    /\ pc = "done"
    /\ Len(scraped) = 5
    /\ hasNextPage
    /\ probed = <<2, 3, 4, 5>>
    /\ result.success
    /\ Len(result.data) >= 5

\* C10: once page 1 has been scraped successfully with at least one record,
\* page 2 is the next page attempted, and the probe is not consulted for
\* page 1.
C10_PageTwoFollowsPageOne ==
    (Len(pageResults) >= 1 /\ ~StopsPagination(pageResults[1])) =>
        /\ \A i \in 1..Len(probed) : probed[i] # 1
        /\ \/ pc = "page" /\ Len(scraped) = 1
           \/ pc = "loop" /\ Len(scraped) = 1 /\ currentPage = 2
           \/ Len(scraped) >= 2 /\ scraped[2] = 2

C10_Witness ==
    /\ pc = "newPage"
    /\ scraped = <<1, 2>>
    /\ probed = <<>>
    /\ Len(allProperties) > 0

(***************************************************************************)
(* Maintenance and notification properties (SpecDb).                       *)
(***************************************************************************)
\* the entry the log gains in this step
Completed == log'[Len(log')]

\* the DELETE statement of deleteOldProperties runs in this step
PurgeStep == dpc = "purge" /\ dpc' = "ready" /\ thrown' = ""

\* C11: deleteOldProperties(days) removes exactly the rows whose scraped_at
\* is earlier than now minus days, leaves every other row as it was, and
\* returns the number of rows removed.
C11_PurgeRemovesExactlyOldRows ==
    [][PurgeStep =>
          /\ DOMAIN db' \subseteq DOMAIN db
          /\ \A k \in DOMAIN db :
                k \notin DOMAIN db' <=> db[k].scraped_at < now - arg * TicksPerDay
          /\ \A k \in DOMAIN db' : db'[k] = db[k]
          /\ Completed.op = "deleteOldProperties"
          /\ Completed.ok
          /\ Completed.ret = Cardinality(DOMAIN db \ DOMAIN db')]_vars

C11_Witness ==
    /\ dpc = "ready"
    /\ log # <<>>
    /\ log[Len(log)].op = "deleteOldProperties"
    /\ log[Len(log)].ok
    /\ log[Len(log)].ret = 1
    /\ arg = 1
    /\ \E k \in DOMAIN db : db[k].scraped_at < now

\* a step of upsertProperties
SaveStep == dpc \in {"begin", "check", "write", "commit", "rollback"}

\* C13: no step of a save changes the isWhatsappMessageSent flag of a row
\* that exists: a row the save creates gets FALSE, a row it updates keeps its
\* flag, so a row marked sent does not become unsent by being saved again.
C13_SaveKeepsSentFlag ==
    [][SaveStep =>
          /\ \A k \in DOMAIN db \cap DOMAIN db' :
                db'[k].isWhatsappMessageSent = db[k].isWhatsappMessageSent
          /\ \A k \in DOMAIN db' \ DOMAIN db : ~db'[k].isWhatsappMessageSent
          /\ Unsent(db') \cap DOMAIN db \subseteq Unsent(db)]_vars

C13_Witness ==
    /\ dpc = "returned"
    /\ saveStats.updated >= 1
    /\ \E i \in 1..Len(written) :
          /\ written[i].id \in DOMAIN dbBefore
          /\ dbBefore[written[i].id].isWhatsappMessageSent
          /\ db[written[i].id].isWhatsappMessageSent
          /\ db[written[i].id].price # dbBefore[written[i].id].price
    /\ Unsent(db) # {}

\* a record with no link: none at all, or white space only
LacksLink(p) == \A i \in 1..Len(p.link) : p.link[i] = " "

\* C14: in upsertProperties the records lacking a link are counted as
\* skipped and left out before the transaction begins and before any query
\* runs; a record lacking a link is never written, whoever the caller is.
C14_LinkFilterRunsFirst ==
    /\ SaveStep =>
          /\ counts.skipped =
                Cardinality({i \in 1..Len(batch) : LacksLink(batch[i])})
          /\ Len(valid) = Len(batch) - counts.skipped
          /\ \A i \in 1..Len(valid) : ~LacksLink(valid[i])
    /\ dpc = "begin" => ~inTx /\ db = dbBefore /\ written = <<>>
    /\ \A i \in 1..Len(written) : ~LacksLink(written[i])
    /\ \A k \in DOMAIN db : ~LacksLink(db[k])

C14_Witness ==
    /\ dpc = "begin"
    /\ batch = <<BlankLink, ExampleA2, ExampleA>>
    /\ counts.skipped = 1
    /\ valid = <<ExampleA2, ExampleA>>

\* the existence check of the record at idx runs in this step
CheckStep == dpc = "check" /\ dpc' = "write"

\* the record at idx is written and counted in this step
WriteStep == dpc = "write" /\ idx' = idx + 1

\* C15: within one batch a link-valid record is counted as updated exactly
\* when a row with its id exists at its existence check inside the
\* transaction, otherwise as inserted; a batch that returns reports inserted
\* = rows it created, inserted + updated = link-valid records, and inserted
\* + updated + skipped = size of the batch.
C15_CountsFollowExistenceCheck ==
    [][/\ CheckStep => (inTx /\ exists' = (valid[idx].id \in DOMAIN db))
       /\ WriteStep =>
             /\ exists = (valid[idx].id \in DOMAIN db)
             /\ counts'.updated = counts.updated + (IF exists THEN 1 ELSE 0)
             /\ counts'.inserted = counts.inserted + (IF exists THEN 0 ELSE 1)
             /\ counts'.skipped = counts.skipped
       /\ dpc' = "returned" =>
             /\ saveStats'.inserted = Cardinality(DOMAIN db' \ DOMAIN dbBefore')
             /\ saveStats'.inserted + saveStats'.updated =
                   Cardinality({i \in 1..Len(batch') : ~LacksLink(batch'[i])})
             /\ saveStats'.inserted + saveStats'.updated + saveStats'.skipped =
                   Len(batch')]_vars

C15_Witness ==
    /\ dpc = "returned"
    /\ batch = <<BlankLink, ExampleA2, ExampleA>>
    /\ dbBefore = NoRows
    /\ saveStats = [inserted |-> 1, updated |-> 1, skipped |-> 1]

\* getPropertiesWithoutWhatsAppMessage returns in this step
FetchStep ==
    /\ Len(log') = Len(log) + 1
    /\ Completed.op = "getPropertiesWithoutWhatsAppMessage"
    /\ Completed.ok

\* markAllPropertiesAsWhatsAppSent returns in this step
MarkStep ==
    /\ Len(log') = Len(log) + 1
    /\ Completed.op = "markAllPropertiesAsWhatsAppSent"
    /\ Completed.ok

\* C19: getPropertiesWithoutWhatsAppMessage returns exactly the rows whose
\* flag is FALSE; markAllPropertiesAsWhatsAppSent sets the flag on exactly
\* those rows and returns their number, leaving no unsent row, so that a
\* fetch right after it is empty and a second mark returns 0 and changes
\* nothing.
C19_FetchAndMarkAgree ==
    [][/\ FetchStep =>
             /\ db' = db
             /\ Len(Completed.ret) = Cardinality(Unsent(db))
             /\ {Completed.ret[i].id : i \in 1..Len(Completed.ret)} = Unsent(db)
             /\ \A i \in 1..Len(Completed.ret) :
                   /\ ~Completed.ret[i].isWhatsappMessageSent
                   /\ Completed.ret[i].price = db[Completed.ret[i].id].price
                   /\ Completed.ret[i].link = db[Completed.ret[i].id].link
       /\ MarkStep =>
             /\ DOMAIN db' = DOMAIN db
             /\ \A k \in DOMAIN db \ Unsent(db) : db'[k] = db[k]
             /\ \A k \in Unsent(db) :
                   db'[k] = [db[k] EXCEPT !.isWhatsappMessageSent = TRUE,
                                          !.updated_at = now]
             /\ Completed.ret = Cardinality(Unsent(db))
             /\ Unsent(db') = {}
             /\ UnsentListings(db') = {<<>>}
             /\ Unsent(db) = {} => (Completed.ret = 0 /\ db' = db)]_vars

C19_Witness ==
    /\ Len(log) = 3
    /\ log[1].op = "markAllPropertiesAsWhatsAppSent" /\ log[1].ok
    /\ log[1].ret >= 1
    /\ log[2].op = "getPropertiesWithoutWhatsAppMessage" /\ log[2].ok
    /\ log[2].ret = <<>>
    /\ log[3].op = "markAllPropertiesAsWhatsAppSent" /\ log[3].ok
    /\ log[3].ret = 0
    /\ db # NoRows

(***************************************************************************)
(* Resource properties (SpecRun).                                          *)
(***************************************************************************)
\* scrapeAndSaveToDatabase has ended, by a return or by a throw
RunEnded == rpc = "ended"

\* C12: whenever scrapeAndSaveToDatabase ends, by a return or by a throw (a
\* failing connect, save or disconnect included), the browser launched for
\* the run has been closed; a failure of browser.close() itself is set aside.
C12_BrowserClosedWhenRunEnds ==
    (RunEnded /\ thrown # "browser.close failed") => browser = "null"

(***************************************************************************)
(* Result properties (SpecScrape).                                         *)
(***************************************************************************)
\* a failure has occurred in the run: the browser did not launch, a page
\* scrape returned success=false, or an exception reached scrapeProperties
FailureOccurred ==
    \/ \E k \in 1..Len(pageResults) : FailedPage(k)
    \/ Returned /\ Len(scraped) > Len(pageResults)
    \/ Returned /\ scraped = <<>>

\* C16: scrapeProperties never raises; every failure (no browser, a tab that
\* does not open or close, a failed page) comes back as a result with
\* success=false, an error string and the records accumulated so far.
C16_FailuresAreStructured ==
    (Returned /\ FailureOccurred) =>
        /\ ~result.success
        /\ result.error # ""
        /\ result.data = allProperties

\* C17: in every result scrapeProperties and scrapeSinglePage return, on
\* success and on failure, totalItems is the number of records in data.
C17_TotalItemsCountsData ==
    /\ Returned => result.totalItems = Len(result.data)
    /\ pageResult # NoResult => pageResult.totalItems = Len(pageResult.data)
    /\ \A k \in 1..Len(pageResults) :
          pageResults[k].totalItems = Len(pageResults[k].data)

C17_Witness ==
    /\ Returned
    /\ ~result.success
    /\ result.totalItems >= 2
    /\ Len(pageResults) >= 2
    /\ pageResults[1].success /\ pageResults[1].totalItems = 3
    /\ pageResults[2].success /\ pageResults[2].totalItems = 2

(***************************************************************************)
(* Probe properties (SpecProbe).                                           *)
(***************************************************************************)
\* C18: on a page k >= 2 the probe decides in this order: a "page X of Y"
\* text answers X < Y whatever the links; otherwise a link to page k + 1
\* answers yes; otherwise the answer is yes only on page 1 with a result
\* container rendered; otherwise no.
C18_ProbeDecidesInOrder ==
    Applied =>
        fnValue.value =
            IF fnArgs.pageText # NoPageText
            THEN fnArgs.pageText[1] < fnArgs.pageText[2]
            ELSE IF fnArgs.currentPageNum + 1 \in fnArgs.pageLinks THEN TRUE
            ELSE fnArgs.currentPageNum = 1 /\ fnArgs.hasResults

(***************************************************************************)
(* Statistics properties (SpecStats).                                      *)
(***************************************************************************)
\* the positions of the rows whose price text holds a digit
Priced(prices) == {i \in 1..Len(prices) : HasDigit(prices[i])}

RECURSIVE Total(_, _)
\* the sum over the positions in S of the number the digits of the price spell
Total(prices, S) ==
    IF S = {} THEN 0
    ELSE LET i == CHOOSE x \in S : TRUE
         IN  DecimalValue(StripNonDigits(prices[i])) + Total(prices, S \ {i})

\* C20: getStatistics reports as avgPrice the mean, rounded to the nearest
\* integer, of the numbers left when every non-digit is stripped from the
\* price, over the rows whose price holds a digit, and 0 when there is no
\* such row ("5,000s" and "7,000s" give 6000); totalProperties is the number
\* of rows.
C20_AvgPriceIsRoundedMean ==
    Applied =>
        LET prices == fnArgs.prices
            n == Cardinality(Priced(prices))
            sum == Total(prices, Priced(prices))
            avg == fnValue.value.avgPrice
        IN  /\ fnValue.value.totalProperties = Len(prices)
            /\ n = 0 => avg = 0
            /\ n > 0 => /\ 2 * avg * n - n <= 2 * sum
                        /\ 2 * sum < 2 * avg * n + n
            /\ prices = << <<"5", ",", "0", "0", "0", "s">>,
                           <<"7", ",", "0", "0", "0", "s">> >> => avg = 6000

C20_Witness ==
    /\ Applied
    /\ fnArgs.prices = << <<"5", ",", "0", "0", "0", "s">>, <<"P", "r", "i", "c", "e">>,
                          <<"7", ",", "0", "0", "0", "s">> >>
    /\ fnValue.value = [totalProperties |-> 3, avgPrice |-> 6000]

(***************************************************************************)
(* Job properties (SpecJob).                                               *)
(***************************************************************************)
\* C21: a job has status completed only when its run finished successfully:
\* the call did not throw and the result it returned reports success
C21_CompletedOnlyOnSuccess ==
    \A j \in DOMAIN jobs :
        jobs[j].status = "completed" =>
            jobs[j].result # Undefined /\ jobs[j].result[1].success

(***************************************************************************)
(* Retention properties (SpecJob).                                         *)
(***************************************************************************)
\* the number of days the caller of scrapeAndSaveToDatabase asked for
DaysAskedFor(o) ==
    IF o.cleanOldDays = Undefined THEN DefaultCleanDays ELSE o.cleanOldDays[1]

\* the purge of a pipeline run has run its statement
RunPurgeStep == rpc = "purge" /\ rpc' = "count"

\* C22: the purge of a pipeline run removes the rows older than the number
\* of days the caller supplied, and older than 30 days when none is supplied
C22_PurgeUsesSuppliedDays ==
    [][RunPurgeStep => db' = Purged(db, DaysAskedFor(options), now)]_vars

(***************************************************************************)
(* Guard and pagination properties (SpecScrape).                           *)
(***************************************************************************)
\* the evasion sequence of the page being scraped has run
EvadeStep == pc = "evade" /\ evasions' # evasions

\* C23: the evasion sequence runs only on a page whose title matches a
\* challenge signature and only once per page scrape; after it extraction
\* proceeds if the title no longer matches, and otherwise the page result is
\* success=false with no records; extraction never starts on a challenge
C23_EvasionRunsOnce ==
    [][/\ EvadeStep =>
            /\ IsChallenge(title)
            /\ evasions = 0 /\ evasions' = 1
            /\ \/ pc' = "extract" /\ ~IsChallenge(title')
               \/ /\ pc' = "close" /\ IsChallenge(title')
                  /\ ~pageResult'.success /\ pageResult'.data = <<>>
       /\ pc' = "extract" => ~IsChallenge(title')]_vars

\* C23 witness: an evasion ran on a page, the title stopped matching and the
\* extraction that followed returned records
C23_Witness ==
    /\ pc = "page" /\ evasions = 1
    /\ pageResult.success /\ Len(pageResult.data) > 0

\* C24: the pages handed to scrapeSinglePage in one run are 1, 2, 3, ... in
\* that order, each once, and a page whose scrape failed is the last one:
\* neither it nor any later page is scraped after the failure
C24_PagesScrapedOnceInOrder ==
    /\ \A i \in 1..Len(scraped) : scraped[i] = i
    /\ \A i \in 1..Len(pageResults) :
           ~pageResults[i].success => Len(scraped) = i

\* C24 witness: the navigation to page 2 failed and the run has returned
\* after scraping pages 1 and 2 once each
C24_Witness ==
    /\ pc = "done"
    /\ scraped = <<1, 2>>
    /\ Len(pageResults) = 2
    /\ pageResults[2].error = "Navigation timeout"

\* a page is fetched: the navigation of scrapeSinglePage or of the probe
PageFetchStep ==
    \/ pc = "goto" /\ pc' # "goto"
    \/ pc = "probeEval" /\ pc' # "probeEval"

\* the fetch of page 1, the first of the run
FirstFetch == pc = "goto" /\ scraped = <<1>>

\* C25: every page fetch of a run but the first comes after an inter-page
\* delay that ran since the fetch before it, and every inter-page delay is a
\* whole number of milliseconds from 5000 to 8000
C25_DelayBetweenFetches ==
    [][/\ (PageFetchStep /\ ~FirstFetch) => paced
       /\ delay' # delay /\ delay' # 0 => delay' \in 5000..8000]_vars

\* control is inside scrapeSinglePage or checkForNextPage, after newPage
InsideTabOperation ==
    pc \in {"goto", "title", "evade", "extract", "close", "probeEval", "probeClose"}

\* page.close() has rejected and the run has ended in the catch block
CloseRejected ==
    pc \in {"done", "closed"} /\ result.error = "page.close failed"

\* C26: at most one tab is open at any moment of a run; when scrapeSinglePage
\* or checkForNextPage has returned, with a result or after an error it
\* caught, the tab it opened is closed; a tab is open outside these two
\* operations only when page.close() itself rejected
C26_OneTabClosedOnReturn ==
    /\ openTabs \in {0, 1}
    /\ pc \in {"page", "probed"} => openTabs = 0
    /\ openTabs = 1 => InsideTabOperation \/ CloseRejected

\* C26 witness: scrapeSinglePage opened a tab, the navigation failed, and the
\* operation has returned the failure with the tab closed
C26_Witness ==
    /\ pc = "page"
    /\ pageResult.error = "Navigation timeout"
    /\ openTabs = 0

(***************************************************************************)
(* Concurrency properties (SpecPair).                                      *)
(***************************************************************************)
\* both sessions ran a save and both saves have committed and returned
BothSaved ==
    \A s \in Sessions :
        sess[s].op = "upsertProperties" /\ sess[s].pc = "returned"

\* the rows storage holds now that it did not hold before the two saves
RowsCreated == Cardinality(storage) - Cardinality(DOMAIN db)

\* C27: when two save batches run concurrently on the same storage, the
\* inserted counts they report add up to the number of rows created
C27_InsertedCountsMatchRows ==
    BothSaved =>
        sess[1].counts.inserted + sess[2].counts.inserted = RowsCreated

\* no two rows of storage carry the same id
UniqueIds == \A r, q \in storage : r.id = q.id => r.rid = q.rid

\* a row that stays in storage keeps its id
IdsKept == \A r \in storage, q \in storage' : r.rid = q.rid => r.id = q.id

\* C28: after any interleaving of saves, purges and markAllNotified calls of
\* concurrent sessions, storage never holds two rows with the same
\* externalId, and the externalId of a stored row never changes
C28_IdsUniqueAndFixed == []UniqueIds /\ [][IdsKept]_vars

\* C28 witness: two concurrent saves both wrote the id "a" as a new record
\* and storage ended up with one row for it
C28_Witness ==
    /\ BothSaved
    /\ \A s \in Sessions : sess[s].counts.inserted = 1
    /\ Cardinality({r \in storage : r.id = ExampleA.id}) = 1

(***************************************************************************)
(* Notification hand-over (SpecDb).                                        *)
(***************************************************************************)
\* some getPropertiesWithoutWhatsAppMessage call so far returned the row id
Offered(id) ==
    \E i \in 1..Len(log) :
        /\ log[i].op = "getPropertiesWithoutWhatsAppMessage"
        /\ log[i].ok
        /\ \E j \in 1..Len(log[i].ret) : log[i].ret[j].id = id

\* the rows a save has inserted since the client connected: the tables the
\* client finds hold rows scraped before time 0 only
InsertedSince(table) == {k \in DOMAIN table : table[k].scraped_at >= 0}

\* the notifier marks what it fetched: the mark returns in this step and the
\* query operation completed before it is a fetch that returned
MarkAfterFetch ==
    /\ MarkStep
    /\ log # <<>>
    /\ log[Len(log)].op = "getPropertiesWithoutWhatsAppMessage"
    /\ log[Len(log)].ok

\* C29: every record inserted by a save is returned by at least one
\* fetchUnnotified call before its messageSentFlag becomes true: the mark
\* that follows a fetch sets the flag on no inserted record that no fetch
\* has returned
C29_OfferedBeforeMarked ==
    [][MarkAfterFetch =>
          \A k \in Unsent(db) \cap InsertedSince(db) : Offered(k)]_vars

(***************************************************************************)
(* Job map properties (SpecJobs).                                          *)
(***************************************************************************)
\* the jobs this step takes out of the job map
Removed == DOMAIN jobs \ DOMAIN jobs'

\* the server ran the named handler in this step
Served(handler) == served' # served /\ served'.handler = handler

\* C30: a job whose status is running is never removed from the job map:
\* DELETE /jobs/:jobId rejects it with status 400, DELETE /jobs removes only
\* completed and failed jobs, and the periodic cleanup removes only jobs
\* whose endTime is more than 24 hours old
C30_RunningJobStays ==
    [][/\ \A k \in Removed : jobs[k].status # "running"
       /\ Served("DELETE /jobs/:jobId") =>
             /\ Removed \subseteq {served'.jobId}
             /\ (served'.jobId \in DOMAIN jobs
                   /\ jobs[served'.jobId].status = "running") =>
                      (served'.status = 400 /\ ~served'.success /\ jobs' = jobs)
       /\ Served("DELETE /jobs") =>
             \A k \in Removed : jobs[k].status \in {"completed", "failed"}
       /\ Served("cleanup") =>
             \A k \in Removed :
                 /\ jobs[k].endTime # Undefined
                 /\ now - jobs[k].endTime[1] > TicksPerDay]_vars

\* C30 witness: a job is still running, a DELETE of it was just rejected,
\* and another job has been removed from the map
C30_Witness ==
    /\ served.handler = "DELETE /jobs/:jobId"
    /\ served.status = 400
    /\ served.jobId \in DOMAIN jobs
    /\ jobs[served.jobId].status = "running"
    /\ Cardinality(DOMAIN jobs) < jobSeq

\* the ways a job's status may have been assigned so far
LegalTrails ==
    {<<"pending", "running">>,
     <<"pending", "running", "completed">>,
     <<"pending", "running", "failed">>}

\* each job's status is the last one assigned to it, and the job has an
\* endTime exactly if that status is completed or failed
EndTimeIffFinished ==
    \A j \in DOMAIN jobs :
        /\ jobs[j].status = statusTrail[j][Len(statusTrail[j])]
        /\ jobs[j].endTime # Undefined <=> Finished(jobs[j])

\* a finished job is left as it is, and a job that finishes in this step gets
\* the time of the step as its endTime
FinishedJobsFrozen ==
    \A j \in DOMAIN jobs \cap DOMAIN jobs' :
        /\ Finished(jobs[j]) => jobs'[j] = jobs[j]
        /\ (~Finished(jobs[j]) /\ Finished(jobs'[j])) => jobs'[j].endTime = <<now>>

\* C31: a job's status only moves pending -> running -> completed or failed;
\* once completed or failed it never changes again, and endTime is set
\* exactly when the status is completed or failed
C31_StatusMovesForward ==
    /\ [](\A j \in DOMAIN statusTrail : statusTrail[j] \in LegalTrails)
    /\ []EndTimeIffFinished
    /\ [][FinishedJobsFrozen]_vars

\* C31 witness: a job has failed, carries its endTime, and time has passed
\* since while another job has completed
C31_Witness ==
    \E j, k \in DOMAIN jobs :
        /\ statusTrail[j] = <<"pending", "running", "failed">>
        /\ jobs[j].endTime # Undefined
        /\ jobs[j].endTime[1] < now
        /\ jobs[k].status = "completed"

(***************************************************************************)
(* Frame of a failed pipeline run (SpecRun).                               *)
(***************************************************************************)
\* scrapeProperties has returned success=false to the pipeline
ScrapeFailed == pc = "done" /\ ~result.success

\* the pipeline is at or past its save
AtOrPastSave == rpc \in {"saving", "stats", "exportFailed"}

\* no upsert has been made for a failed scrape, and if the call returns, it
\* returns the scrape result without dbStats
NoSaveAfterFailedScrape ==
    ScrapeFailed =>
        /\ ~AtOrPastSave
        /\ dpc = "off"
        /\ written = <<>>
        /\ ~inTx
        /\ (RunEnded /\ thrown = "") =>
               (runResult.scraping = result /\ runResult.dbStats = NoStats)

\* storage changes in the purge and in the save only; the purge comes before
\* the scrape; a row comes into the table by a write of the save only, and a
\* save that throws leaves the table as the purge left it
OnlyPurgeAndSaveWrite ==
    /\ db' # db =>
          \/ RunPurgeStep /\ pc = "idle" /\ db' = Purged(db, CleanDays(options), now)
          \/ rpc = "saving" /\ dpc \in {"write", "rollback"}
    /\ DOMAIN db' \ DOMAIN db # {} => (rpc = "saving" /\ dpc = "write")
    /\ (rpc = "saving" /\ dpc' = "threw") => db' = dbBefore
    /\ (rpc = "scraping" /\ rpc' = "saving") => dbBefore' = db

\* C32: when the scrape reports success=false, scrapeAndSaveToDatabase makes
\* no upsert and returns the scrape result without dbStats; the only storage
\* change of the call is the retention purge, which runs before scraping and
\* is not undone when scraping or saving fails afterwards
C32_FailedScrapeLeavesOnlyPurge ==
    []NoSaveAfterFailedScrape /\ [][OnlyPurgeAndSaveWrite]_vars

\* C32 witness: a call asked to purge rows older than a day has returned the
\* failed scrape result, without dbStats, on the purged table
C32_Witness ==
    /\ RunEnded
    /\ ScrapeFailed
    /\ thrown = ""
    /\ options.cleanOldData
    /\ options.cleanOldDays = <<1>>
    /\ db = NoRows
    /\ runResult.dbStats = NoStats
    /\ ~runResult.scraping.success

(***************************************************************************)
(* Probe failure (SpecFallback).                                           *)
(***************************************************************************)
\* C33: when the next-page probe itself fails on a page k >= 2, the probe
\* answers no
C33_FailedProbeAnswersNo == Applied => fnValue.value = FALSE

(***************************************************************************)
(* Duplicate ids within one batch (SpecPair).                              *)
(***************************************************************************)
\* the rows of storage with the given id
RowsOf(rows, id) == {r \in rows : r.id = id}

\* the position of the last record of the sequence with the given id
LastOf(records, id) ==
    CHOOSE i \in 1..Len(records) :
        /\ records[i].id = id
        /\ \A j \in (i + 1)..Len(records) : records[j].id # id

\* the ids that occur more than once in the sequence
Repeated(records) ==
    {records[i].id : i \in {k \in 1..Len(records) :
                               \E j \in 1..Len(records) :
                                   j # k /\ records[j].id = records[k].id}}

\* storage holds one row for the id, with the field values of the record
HoldsValuesOf(rows, p) ==
    /\ Cardinality(RowsOf(rows, p.id)) = 1
    /\ \A r \in RowsOf(rows, p.id) :
          /\ r.data.price = p.price
          /\ r.data.rooms = p.rooms
          /\ r.data.link = p.link

\* the save of session s commits in this step
CommitStep(s) == sess[s].pc = "commit" /\ sess'[s].pc = "returned"

\* the upsert statement of session s runs in this step: the row it leaves
\* has the scraped_at the row had, or the time of the step if it is new
FirstSeenKept(s) ==
    (sess[s].pc = "write" /\ sess'[s].idx = sess[s].idx + 1) =>
        \A r \in RowsOf(storage', sess[s].valid[sess[s].idx].id) :
            /\ \A q \in RowsOf(storage, r.id) :
                  r.data.scraped_at = q.data.scraped_at
            /\ RowsOf(storage, r.id) = {} => r.data.scraped_at = now

Answered == rpc = "api" /\ served.handler # "none"

\* C35: every database connection opened by a ScraperDatabaseService
\* operation or by an API handler is closed when the operation ends, on
\* success and when a query fails; a failure of disconnect() itself is set
\* aside
C35_ConnectionClosedAtEnd ==
    (Answered /\ thrown # "disconnect failed") => connection = "null"

(***************************************************************************)
(* C36: a record whose link holds no /realestate/item/{id} segment carries *)
(* a synthetic id (time and item index); when it is saved it is counted as *)
(* inserted, never as updated, and the save adds a new row for it.         *)
(***************************************************************************)
NoItemSegment(p) == LinkMatches(p.link) = {}

IsSynthetic(id) == id.name = "property"

\* every extracted record without an item segment has a synthetic id
SyntheticWithoutSegment ==
    \A i \in 1..Len(allProperties) :
        NoItemSegment(allProperties[i]) => IsSynthetic(allProperties[i].id)

\* the write of such a record is an insert of a row that was not there
LinklessWriteInserts ==
    (WriteStep /\ NoItemSegment(valid[idx]))
        => /\ IsSynthetic(valid[idx].id)
           /\ ~exists
           /\ valid[idx].id \notin DOMAIN db
           /\ DOMAIN db' = DOMAIN db \cup {valid[idx].id}
           /\ counts'.inserted = counts.inserted + 1
           /\ counts'.updated = counts.updated

Tried == fnValue.value.tried

\* item selector j of the container of selector i yields a kept record
Yields(i, j) ==
    fnArgs.doc[i].found /\ ExtractItems(fnArgs.doc[i].lists[j], fnArgs.t) # <<>>

\* where a loop over 1..MaxSelectors ends that leaves at the first of S
EndsAt(S) == IF S = {} THEN MaxSelectors ELSE Min(S)

InFixedOrder(tried) == \A k \in 1..Len(tried) : tried[k] = k

\* C37 as stated: extraction stops at the first container selector that
\* yields a container, no later container selector is tried once one has
\* matched, and an item selector that finds elements is the last one tried
\* in its container.
C37_StopsAtFirstContainer ==
    Applied =>
        /\ \A k \in 1..Len(Tried) : Tried[k].found => k = Len(Tried)
        /\ \A k \in 1..Len(Tried) :
              \A m \in 1..Len(Tried[k].itemSelectors) :
                  fnArgs.doc[k].lists[m] # <<>> => m = Len(Tried[k].itemSelectors)

\* C37 amended: the container selectors are tried in their fixed order up to
\* the first whose container yields at least one kept record, the item
\* selectors of each container found are tried in their fixed order up to
\* the first that yields at least one kept record, and the records returned
\* are those of that one item selector.
C37_StopsAtFirstKeptRecord ==
    Applied =>
        /\ InFixedOrder([k \in 1..Len(Tried) |-> Tried[k].selector])
        /\ Len(Tried) =
               EndsAt({i \in 1..MaxSelectors : \E j \in 1..MaxSelectors : Yields(i, j)})
        /\ \A k \in 1..Len(Tried) :
              /\ Tried[k].found = fnArgs.doc[k].found
              /\ InFixedOrder(Tried[k].itemSelectors)
              /\ Len(Tried[k].itemSelectors) =
                     IF fnArgs.doc[k].found
                     THEN EndsAt({j \in 1..MaxSelectors : Yields(k, j)})
                     ELSE 0
        /\ LET last == Tried[Len(Tried)]
               j == Len(last.itemSelectors)
           IN  fnValue.value.items =
                   IF last.found /\ Yields(Len(Tried), j)
                   THEN ExtractItems(fnArgs.doc[Len(Tried)].lists[j], fnArgs.t)
                   ELSE <<>>

\* C37 witness: the first container selector matched and its item selectors
\* found elements but no record was kept, so the second container selector
\* was tried, and its second item selector gave the records returned
C37_Witness ==
    /\ Applied
    /\ Len(Tried) = 2
    /\ Tried[1].found
    /\ fnArgs.doc[1].lists[1] # <<>>
    /\ Len(Tried[1].itemSelectors) = 2
    /\ Len(Tried[2].itemSelectors) = 2
    /\ fnArgs.doc[2].lists[1] # <<>>
    /\ fnValue.value.items # <<>>
(***************************************************************************)
(* C38: an item element is kept if and only if its raw text is longer than *)
(* 50 characters or one of price, rooms, area was extracted non-empty;     *)
(* the extraction of an element always returns; each of price, location,   *)
(* rooms, area and floor of a kept record holds its sentinel exactly when  *)
(* the extraction of that field found nothing, and the text found          *)
(* otherwise.                                                              *)
(***************************************************************************)
Kept == fnValue.value # <<>>

\* field of the kept record is the sentinel iff nothing was found for it
SentinelIffEmpty(field, found, sentinel) ==
    /\ (field = sentinel) <=> (found = "")
    /\ found # "" => field = found

C38_KeptIffMeaningful ==
    Applied =>
        LET e == fnArgs.element
            kept == fnValue.value
        IN  /\ Len(kept) <= 1
            /\ Kept <=> \/ e.textLen > 50
                        \/ e.price # "" \/ e.rooms # "" \/ e.area # ""
            /\ Kept =>
                  /\ SentinelIffEmpty(kept[1].price, e.price, "Price not found")
                  /\ SentinelIffEmpty(kept[1].location, e.location,
                                      "Location not specified")
                  /\ SentinelIffEmpty(kept[1].rooms, e.rooms, "Rooms not specified")
                  /\ SentinelIffEmpty(kept[1].area, e.area, "Area not specified")
                  /\ SentinelIffEmpty(kept[1].floor, e.floor, "Floor not specified")

\* C38 witness: an element with a text of 50 characters is kept for its
\* rooms alone; its record has the rooms and the floor found and the
\* sentinels of price, location and area
C38_Witness ==
    /\ Applied
    /\ Kept
    /\ fnArgs.element.textLen = MinTextLength
    /\ fnArgs.element.price = "" /\ fnArgs.element.area = ""
    /\ fnValue.value[1].price = PriceNotFound
    /\ fnValue.value[1].location = "Location not specified"
    /\ fnValue.value[1].rooms = "3 rooms"
    /\ fnValue.value[1].area = "Area not specified"
    /\ fnValue.value[1].floor = "floor 2"
====
